---------------------------- MODULE Spec2Model ----------------------------
(***************************************************************************)
(* Model of hdd-monitor-linux: the diagnostic test orchestrator            *)
(* (core/test_runner.py) and the callers that start and cancel a session.  *)
(*                                                                         *)
(* Class layout of core/test_runner.py as Python binds it: class          *)
(* TestRunner spans lines 184-659 and binds run_tests, _run_single_test   *)
(* and the seven _test_* methods.  Line 662 starts a module-level          *)
(* function _parse_f3probe_output at column 0, which ends the class; the  *)
(* definitions of _run_badblocks (725), _is_mounted (860) and              *)
(* cancel_session (869) are indented inside that function, after its       *)
(* return statement (722).  They are never bound to TestRunner, so        *)
(* cls._run_badblocks, cls._parse_f3probe_output and                       *)
(* TestRunner.cancel_session raise AttributeError when evaluated.          *)
(***************************************************************************)
EXTENDS Integers, Sequences, FiniteSets, TLC

(***************************************************************************)
(* Bounds of the model.                                                    *)
(***************************************************************************)
MaxTests == 3
MaxCancelCalls == 1
MaxF3Polls == 3
MaxScanPolls == 2
MaxPatterns == 1
MaxBadBlocks == 1
MaxAttrValue == 8

(***************************************************************************)
(* Program constants.                                                      *)
(***************************************************************************)
SmartShortEstimate == 120
SmartShortPollInterval == 10
SmartShortGrace == 60
ProgressCap == 95
F3ProbeEstimate == 300
F3ProbeSleep == 2
ReadSamples == 10

None == "None"

\* AVAILABLE_TESTS: the registry's keys, in registry order.
AVAILABLE_TESTS ==
    << "smart_info", "health_check", "fake_quick", "smart_short",
       "read_sample", "speed_test", "f3probe", "smart_extended",
       "badblocks_ro", "badblocks_rw", "badblocks_wipe" >>

TestIds == { AVAILABLE_TESTS[i] : i \in 1..Len(AVAILABLE_TESTS) }

\* TestStatus
PENDING == "pending"
RUNNING == "running"
COMPLETED == "completed"
FAILED == "failed"
CANCELLED == "cancelled"
SKIPPED == "skipped"

TestStatus == { PENDING, RUNNING, COMPLETED, FAILED, CANCELLED, SKIPPED }
TerminalStatus == { COMPLETED, FAILED, CANCELLED, SKIPPED }

\* TestResult(test_id, status, message); a number formatted into the
\* message is left as its placeholder.
TestResult(id, st, msg) == [test_id |-> id, status |-> st, message |-> msg]

NoResult == TestResult(None, PENDING, "")

\* The names class TestRunner binds (its body, lines 184-659).
TestRunnerAttrs ==
    { "run_tests", "_run_single_test", "_test_smart_info",
      "_test_health_check", "_test_fake_quick", "_test_smart_short",
      "_test_read_sample", "_test_speed", "_test_f3probe" }

\* The definitions nested in the module-level function of line 663.
NestedDefs ==
    { "_parse_f3probe_output", "_run_badblocks", "_is_mounted",
      "cancel_session" }

\* The test lists a caller builds: a selection of at most n registry
\* entries, in registry order (as the wizard's presets, diagnostic_wizard.py
\* lines 377-383, and its [AVAILABLE_TESTS[tid] for tid in selected_tests]).
\* A list is given by the increasing sequence of its registry positions.
RECURSIVE Selections(_, _)
Selections(n, from) ==
    IF n = 0 THEN { << >> }
    ELSE { << >> } \cup
         UNION { { << AVAILABLE_TESTS[k] >> \o rest :
                     rest \in Selections(n - 1, k + 1) } :
                 k \in from..Len(AVAILABLE_TESTS) }

TestLists(n) == Selections(n, 1)

VARIABLES
    attrs,             \* the names bound on class TestRunner
    mounted,           \* the mount table has an entry under the device's base path
    badblocks_exists,  \* Path(BADBLOCKS_PATH).exists()
    tests_to_run,      \* session.tests_to_run (ids of the TestDefinitions)
    results,           \* session.results: test id -> TestResult
    current_test,      \* session.current_test
    is_running,        \* session.is_running
    is_cancelled,      \* session.is_cancelled
    current_process,   \* session._current_process: None or the Popen handle
    child,             \* the child process behind the handle
    pc,                \* position of the worker thread inside run_tests
    idx,               \* index of the loop over tests_to_run
    result,            \* value returned by _run_single_test, not yet stored
    loc,               \* locals of the test body in execution
    started,           \* ids for which on_progress(id, 0, ...) of line 194 was delivered
    progress,          \* on_progress deliveries for the test in execution
                       \* (from line 194 until its result is stored)
    notified,          \* on_test_complete deliveries, in order
    session_completes, \* number of on_session_complete deliveries
    raised,            \* test id -> text of the exception that ended its body
    cancel_log,        \* the calls of TestRunner.cancel_session made by the UI:
                       \* what each met and how it ended
    scan,              \* _run_badblocks: the cells shared with its reader
                       \* thread and the scan tool's stderr
    canceller,         \* position of the thread inside cancel_session
    spawned,           \* the command lines given to subprocess.Popen
    signals,           \* the signals sent to the child behind the handle
    seen,              \* what the tools gave the test in execution: the
                       \* facts about their presence and their answers
                       \* (from its start until its result is stored)
    parse_pc,          \* position of a call of SmartParser.parse
    tried,             \* SmartParser.parse: the driver hints given to the
                       \* tool so far, each with the tool's answer
    parse_loc,         \* SmartParser.parse: output, used_driver
    smart,             \* SmartParser.parse: the SmartData it builds
    attribute,         \* a SmartAttribute
    verdicts,          \* the values its is_failing() has returned
    snapshot,          \* calculate_health: the SmartData it is given
    health_pc,         \* position of a call of calculate_health
    health_report,     \* calculate_health: the HealthReport it returns
    fake_pc,           \* position of a call of the fake detector
    fake_call,         \* the entry point called and its allow_destructive
    fake_report,       \* the FakeDetectorReport of the call
    probes,            \* the outputs of the runs of the destructive prober
    smart_cache,       \* DiskService._smart_cache: device -> info
    cache_timestamp,   \* DiskService._cache_timestamp: device -> time
    clock,             \* time.time()
    probed,            \* the devices SmartParser.parse was run on by DiskService
    call,              \* thread -> its call of DiskService in progress or last
                       \* returned: arguments, position, locals, outcome
    sizes,             \* what the sources of a disk's size answer
    disk_info,         \* the DiskInfo get_disk_by_device returned
    front_end,         \* the holder of the sessions of one device:
                       \* DiagnosticController or DiagnosticWizard
    controls,          \* its fields and the state of its buttons
    workers            \* the sessions it created, each with the position
                       \* of the thread it started on run_tests

vars == << attrs, mounted, badblocks_exists, tests_to_run, results, current_test, is_running,
           is_cancelled, current_process, child, pc, idx, result, loc,
           started, progress, notified, session_completes, raised,
           cancel_log, scan, canceller, spawned, signals, seen,
           parse_pc, tried, parse_loc, smart, attribute, verdicts,
           snapshot, health_pc, health_report,
           fake_pc, fake_call, fake_report, probes,
           smart_cache, cache_timestamp, clock, probed, call, sizes, disk_info,
           front_end, controls, workers >>

\* Attribute lookup cls.<name>: TRUE when it resolves, FALSE when it
\* raises AttributeError.
HasAttr(name) == name \in attrs

\* core/smart_parser.py: nothing of it is written by a test session.
smart_parser == << parse_pc, tried, parse_loc, smart, attribute, verdicts >>

\* core/health_score.py and core/fake_detector.py, likewise.
health_score == << snapshot, health_pc, health_report >>
fake_detector == << fake_pc, fake_call, fake_report, probes >>
\* core/disk_service.py, likewise.
disk_service == << smart_cache, cache_timestamp, clock, probed, call, sizes,
                   disk_info >>
\* ui/diagnostic_controller.py and ui/diagnostic_wizard.py: the sessions
\* of one device, one after the other.
diagnostic_ui == << front_end, controls, workers >>
analysis == << health_score, fake_detector, disk_service, diagnostic_ui >>

static == << attrs, mounted, badblocks_exists, tests_to_run, smart_parser,
            analysis >>
threads == << scan, canceller >>
procs == << spawned, signals >>

session == << results, current_test, is_running, is_cancelled, current_process >>
callbacks == << started, progress, notified, session_completes >>
ui == << raised, cancel_log >>

\* The marker phrases the code looks for in a tool's output; an output is
\* modelled by the set of markers it contains.
SmartStartMarkers == { "begun", "usb_bridge", "in_progress", "unsupported" }

\* The child process of a Popen: none, running, terminating (SIGTERM
\* delivered, not yet dead), exited.
ChildStates == { "none", "running", "terminating", "exited" }

NoLocals == [elapsed |-> 0, i |-> 0, errors |-> 0, polls |-> 0, output |-> {}]

\* The first percentage of a line of the scan tool's stderr.
ScanPercents == { 0, 50 }

\* The positions of the worker inside a test body.
BodyPcs ==
    { "call", "except", "smart_short_drivers", "smart_short_poll",
      "read_sample_loop", "speed_dd", "f3probe_loop", "badblocks_loop",
      "badblocks_wait" }

\* No scan in execution.
NoScan == [mode |-> None, last_pct |-> 0, current_pass |-> 1, pos |-> 0]

\* SmartParser.SMART_DRIVERS, line 182
SMART_DRIVERS == << "", "sat", "scsi", "ata", "usbjmicron", "nvme" >>

\* The stdout of one smartctl -a: which attempt printed it, and the set
\* of the phrases it holds that parse looks for.  NoOutput is the empty
\* text (and the None of line 190: line 218 tells neither from the other).
NoOutput == [attempt |-> 0, stdout |-> {}]

\* SmartData(device=device), line 187: the dataclass defaults.
SmartData ==
    [driver |-> "", raw_output |-> NoOutput, model |-> "",
     smart_supported |-> FALSE]

\* A SmartAttribute: its normalized value and its threshold.
SmartAttribute(value, threshold) == [value |-> value, threshold |-> threshold]

\* No call of the parser, no attribute asked.
NoParse ==
    /\ parse_pc = "idle"
    /\ tried = << >>
    /\ parse_loc = [output |-> NoOutput, used_driver |-> ""]
    /\ smart = SmartData
    /\ attribute = SmartAttribute(0, 0)
    /\ verdicts = << >>

\* The fields of a SmartData that calculate_health reads; temperature 0
\* stands for None as well (line 217 tells neither from the other), crc
\* for the raw value of attribute 199 (0 when the attribute is absent).
SmartMetrics(vendor, health_passed, reallocated_sectors, pending_sectors, uncorrectable_sectors, power_on_hours, temperature, crc) ==
    [vendor |-> vendor, health_passed |-> health_passed,
     reallocated_sectors |-> reallocated_sectors,
     pending_sectors |-> pending_sectors,
     uncorrectable_sectors |-> uncorrectable_sectors,
     power_on_hours |-> power_on_hours,
     temperature |-> temperature, crc |-> crc]

\* HealthReport(score, level, factors, recommendations)
HealthReport(score, level, factors, recommendations) ==
    [score |-> score, level |-> level, factors |-> factors,
     recommendations |-> recommendations]

\* No call of calculate_health.
NoHealth ==
    /\ snapshot = SmartMetrics("Unknown", TRUE, 0, 0, 0, 0, 0, 0)
    /\ health_pc = "idle"
    /\ health_report = HealthReport(0, "unknown", << >>, << >>)

\* CapacityInfo(), lines 31-36
CapacityInfo ==
    [lsblk_bytes |-> 0, fdisk_bytes |-> 0, smart_bytes |-> 0,
     hdparm_native_sectors |-> 0, hdparm_max_sectors |-> 0]

\* FakeDetectorReport(device=device), lines 75-84
FakeDetectorReport ==
    [status |-> "untested", confidence |-> 0, capacity |-> CapacityInfo,
     tests |-> << >>, recommendations |-> << >>]

\* No call of the fake detector.
NoFake ==
    /\ fake_pc = "idle"
    /\ fake_call = [entry |-> None, allow_destructive |-> FALSE]
    /\ fake_report = FakeDetectorReport
    /\ probes = << >>

\* The threads that call DiskService: the monitoring worker of the
\* dashboard (Dashboard._worker: clear_old_cache and the lookups of
\* get_all_disks) and the thread of the user interface (clear_cache of
\* Dashboard._force_refresh, the forced lookup of get_disk_by_device when
\* the wizard opens).
Threads == { "worker", "ui" }

Devices == { "/dev/sda", "/dev/sdb" }

\* A dict whose keys are devices: the empty one, d[key] = value,
\* d.pop(key, None), d.get(key, default).
EmptyDict == [d \in {} |-> None]

Put(dict, key, value) ==
    [d \in DOMAIN dict \cup { key } |-> IF d = key THEN value ELSE dict[d]]

Pop(dict, key) == [d \in DOMAIN dict \ { key } |-> dict[d]]

Get(dict, key, default) == IF key \in DOMAIN dict THEN dict[key] ELSE default

\* The dict `info` of lines 302-314 built by the n-th probe: what
\* SmartParser.parse and the detections read from the device then.
Info(device, n) == [device |-> device, probe |-> n]

NoInfo == Info(None, 0)

\* What a lookup finds under its device when it starts.
Found(device) ==
    [cached |-> device \in DOMAIN smart_cache,
     entry |-> Get(smart_cache, device, NoInfo),
     stamped |-> device \in DOMAIN cache_timestamp,
     timestamp |-> Get(cache_timestamp, device, 0)]

\* A thread not calling DiskService.
NoCall ==
    [op |-> None, pc |-> "idle", device |-> None, force_refresh |-> FALSE,
     now |-> 0,
     found |-> [cached |-> FALSE, entry |-> NoInfo, stamped |-> FALSE,
                timestamp |-> 0],
     info |-> NoInfo, ret |-> NoInfo, raised |-> None, expired |-> << >>]

\* The sources of a disk's size, none of them answering: no mounted
\* partition of the disk, blockdev and lsblk failing, no /sys/block entry.
NoSizes ==
    [partition |-> [state |-> "unmounted", mountpoint |-> "", total |-> 0],
     blockdev |-> [ok |-> FALSE, bytes |-> 0],
     sys |-> [ok |-> FALSE, sectors |-> 0],
     lsblk |-> [ok |-> FALSE, bytes |-> 0]]

\* DiskInfo, lines 22-39: the fields get_disk_by_device fills from the
\* device, the sizes and the SMART lookup.
DiskInfo(device, base_device, mount_point, total_gb, smart_info) ==
    [device |-> device, base_device |-> base_device,
     mount_point |-> mount_point, total_gb |-> total_gb, smart |-> smart_info]

NoDiskInfo == DiskInfo(None, None, "", 0, NoInfo)

\* The fields of a DiagnosticController after __init__ (lines 16-21) and
\* of a DiagnosticWizard after _setup_ui (diagnostic_wizard.py lines 46-48,
\* 288-291): no session, nothing selected, both buttons disabled.
NoControls ==
    [ is_running |-> FALSE, selected_tests |-> FALSE, start_btn |-> "disabled",
      cancel_btn |-> "disabled", updates |-> 0, raised |-> None ]

\* No diagnostic window open.
Closed ==
    /\ front_end = None
    /\ controls = NoControls
    /\ workers = << >>

\* The class attributes of DiskService as defined (lines 43-44), nothing
\* called.
NoDisk ==
    /\ smart_cache = EmptyDict
    /\ cache_timestamp = EmptyDict
    /\ clock = 0
    /\ probed = << >>
    /\ call = [t \in Threads |-> NoCall]
    /\ sizes = NoSizes
    /\ disk_info = NoDiskInfo

\* The dataclass defaults of a TestSession's fields (lines 84-94), the
\* worker not started, nothing delivered.
Fresh ==
    /\ results = << >>
    /\ current_test = None
    /\ is_running = FALSE
    /\ is_cancelled = FALSE
    /\ current_process = None
    /\ child = "none"
    /\ pc = "idle"
    /\ idx = 1
    /\ result = NoResult
    /\ loc = NoLocals
    /\ started = << >>
    /\ progress = << >>
    /\ notified = << >>
    /\ session_completes = 0
    /\ raised = << >>
    /\ cancel_log = << >>
    /\ scan = NoScan
    /\ canceller = "idle"
    /\ spawned = << >>
    /\ signals = << >>
    /\ seen = {}

\* TestSession(device, tests_to_run, on_progress, on_test_complete,
\* on_session_complete) for some device and some selection of tests.
Session ==
    /\ mounted \in BOOLEAN
    /\ badblocks_exists \in BOOLEAN
    /\ tests_to_run \in TestLists(MaxTests)
    /\ NoParse
    /\ NoHealth
    /\ NoFake
    /\ Fresh
    /\ NoDisk
    /\ Closed

\* The program as Python binds it.
Init ==
    /\ attrs = TestRunnerAttrs
    /\ Session

\* A fact a test meets: a phrase of a tool's output, the absence of the
\* tool, a number the tool wrote.
Fact(tag) == [tag |-> tag, n |-> 0]
Figure(tag, n) == [tag |-> tag, n |-> n]

\* What test id, in execution, has met so far, and the record after it
\* meets the facts of tags.
Seen(id) == IF current_test = id THEN seen ELSE {}

Meet(id, tags) == seen' = seen \cup tags

\* session.on_progress(test_id, pct, message)
OnProgress(id, pct) == Append(progress, [test_id |-> id, pct |-> pct])

(***************************************************************************)
(* TestRunner.run_tests                                                    *)
(***************************************************************************)

\* line 187
run_tests_enter ==
    /\ pc = "idle"
    /\ is_running' = TRUE
    /\ pc' = "loop"
    /\ UNCHANGED << static, seen, threads, procs, results, current_test, is_cancelled,
                    current_process, child, idx, result, loc, callbacks, ui >>

\* run_tests_next without the cancellation check of lines 189-190.
run_tests_next_unchecked ==
    /\ pc = "loop"
    /\ idx <= Len(tests_to_run)
    /\ current_test' = tests_to_run[idx]
    /\ started' = Append(started, tests_to_run[idx])
    /\ progress' = << [test_id |-> tests_to_run[idx], pct |-> 0] >>
    /\ loc' = NoLocals
    /\ pc' = "call"
    /\ UNCHANGED << static, seen, threads, procs, results, is_running, is_cancelled,
                    current_process, child, idx, result, notified,
                    session_completes, ui >>

\* lines 188-194: the loop head, the cancellation check, the first
\* progress callback; line 196 then calls _run_single_test.
run_tests_next ==
    /\ pc = "loop"
    /\ idx <= Len(tests_to_run)
    /\ ~is_cancelled
    /\ current_test' = tests_to_run[idx]
    /\ started' = Append(started, tests_to_run[idx])
    /\ progress' = << [test_id |-> tests_to_run[idx], pct |-> 0] >>
    /\ loc' = NoLocals
    /\ pc' = "call"
    /\ UNCHANGED << static, seen, threads, procs, results, is_running, is_cancelled,
                    current_process, child, idx, result, notified,
                    session_completes, ui >>

\* run_tests_leave with a return in place of the break of line 190.
run_tests_leave_return ==
    /\ pc = "loop"
    /\ (idx > Len(tests_to_run) \/ is_cancelled)
    /\ pc' = IF is_cancelled THEN "done" ELSE "exit"
    /\ UNCHANGED << static, seen, threads, procs, session, child, idx, result, loc,
                    callbacks, ui >>

\* lines 188-190: the list is exhausted, or the flag is set (break).
run_tests_leave ==
    /\ pc = "loop"
    /\ (idx > Len(tests_to_run) \/ is_cancelled)
    /\ pc' = "exit"
    /\ UNCHANGED << static, seen, threads, procs, session, child, idx, result, loc,
                    callbacks, ui >>

\* run_tests_store with the callback of lines 199-200 skipped.
run_tests_store_unnotified ==
    /\ pc = "store"
    /\ results' = [ k \in DOMAIN results \cup { tests_to_run[idx] } |->
                      IF k = tests_to_run[idx] THEN result ELSE results[k] ]
    /\ progress' = << >>
    /\ seen' = {}
    /\ idx' = idx + 1
    /\ result' = NoResult
    /\ pc' = "loop"
    /\ UNCHANGED << static, threads, procs, current_test, is_running, is_cancelled,
                    current_process, child, loc, started, notified,
                    session_completes, ui >>

\* line 197 as session.results = {test_def.id: result}: the mapping replaced.
run_tests_store_alone ==
    /\ pc = "store"
    /\ results' = [ k \in { tests_to_run[idx] } |-> result ]
    /\ progress' = << >>
    /\ seen' = {}
    /\ pc' = "notify"
    /\ UNCHANGED << static, threads, procs, current_test, is_running, is_cancelled,
                    current_process, child, idx, result, loc, started,
                    notified, session_completes, ui >>

\* line 197
run_tests_store ==
    /\ pc = "store"
    /\ results' = [ k \in DOMAIN results \cup { tests_to_run[idx] } |->
                      IF k = tests_to_run[idx] THEN result ELSE results[k] ]
    /\ progress' = << >>
    /\ seen' = {}
    /\ pc' = "notify"
    /\ UNCHANGED << static, threads, procs, current_test, is_running, is_cancelled,
                    current_process, child, idx, result, loc, started,
                    notified, session_completes, ui >>

\* lines 199-200, then back to the loop head
run_tests_notify ==
    /\ pc = "notify"
    /\ notified' = Append(notified, result)
    /\ idx' = idx + 1
    /\ result' = NoResult
    /\ pc' = "loop"
    /\ UNCHANGED << static, seen, threads, procs, session, child, loc, started, progress,
                    session_completes, ui >>

\* lines 202-203
run_tests_exit ==
    /\ pc = "exit"
    /\ is_running' = FALSE
    /\ current_test' = None
    /\ pc' = "session_complete"
    /\ UNCHANGED << static, seen, threads, procs, results, is_cancelled, current_process,
                    child, idx, result, loc, callbacks, ui >>

\* lines 205-206
run_tests_session_complete ==
    /\ pc = "session_complete"
    /\ session_completes' = session_completes + 1
    /\ pc' = "done"
    /\ UNCHANGED << static, seen, threads, procs, session, child, idx, result, loc,
                    started, progress, notified, ui >>

(***************************************************************************)
(* TestRunner._run_single_test                                             *)
(***************************************************************************)

\* Caught with the exception swallowed into a SKIPPED result.
Caught_skipped(id, exc) == TestResult(id, SKIPPED, "")

\* lines 237-243: an exception of the test body becomes a FAILED result.
Caught(id, exc) == TestResult(id, FAILED, exc)

\* An exception with text exc ends the body of test id.
Raise(id, exc) ==
    raised' = [ k \in DOMAIN raised \cup { id } |->
                  IF k = id THEN exc ELSE raised[k] ]

\* The worker returns r from _run_single_test.
Return(r) ==
    /\ result' = r
    /\ pc' = "store"

\* lines 217-222, 246-292: the three quick tests report 50 and complete.
QuickTests == { "smart_info", "health_check", "fake_quick" }

QuickMessage(id) ==
    CASE id = "smart_info" -> "Informacoes coletadas com sucesso"
      [] id = "health_check" -> "Saude: label (score%)"
      [] id = "fake_quick" -> "report.summary"

test_quick ==
    /\ pc = "call"
    /\ current_test \in QuickTests
    /\ progress' = OnProgress(current_test, 50)
    /\ Return(TestResult(current_test, COMPLETED, QuickMessage(current_test)))
    /\ UNCHANGED << static, seen, threads, procs, session, child, idx, loc, started,
                    notified, session_completes, ui >>

\* lines 234-235: a registry id without a branch of its own.
test_not_implemented ==
    /\ pc = "call"
    /\ current_test = "smart_extended"
    /\ Return(TestResult(current_test, SKIPPED, "Nao implementado"))
    /\ UNCHANGED << static, seen, threads, procs, session, child, idx, loc, callbacks, ui >>

\* line 232
Mode(id) ==
    CASE id = "badblocks_ro" -> "ro"
      [] id = "badblocks_rw" -> "rw"
      [] id = "badblocks_wipe" -> "wipe"

AttrError(name) ==
    CASE name = "_run_badblocks" ->
           "Erro: type object 'TestRunner' has no attribute '_run_badblocks'"
      [] name = "_parse_f3probe_output" ->
           "Erro: type object 'TestRunner' has no attribute '_parse_f3probe_output'"
      [] name = "cancel_session" ->
           "Erro: type object 'TestRunner' has no attribute 'cancel_session'"

\* lines 231-233: cls._run_badblocks is looked up on the class; the lookup
\* raises AttributeError.  No statement of the scan routine runs.
test_badblocks ==
    /\ pc = "call"
    /\ current_test \in { "badblocks_ro", "badblocks_rw", "badblocks_wipe" }
    /\ ~HasAttr("_run_badblocks")
    /\ Raise(current_test, AttrError("_run_badblocks"))
    /\ pc' = "except"
    /\ UNCHANGED << static, seen, threads, procs, session, child, idx, result, loc, callbacks,
                    cancel_log >>

\* lines 237-243: the handler of the single-test boundary.
run_single_test_except ==
    /\ pc = "except"
    /\ Return(Caught(current_test, raised[current_test]))
    /\ UNCHANGED << static, seen, threads, procs, session, child, idx, loc, callbacks, ui >>

(***************************************************************************)
(* TestRunner._test_smart_short                                            *)
(***************************************************************************)

\* line 303
SmartShortDrivers == << "", "sat", "scsi", "ata" >>

NameErrorParsed == "Erro: name 'parsed' is not defined"

\* f"Erro: {e}" for an exception e of a subprocess call.
ErroE == "Erro: {e}"

\* lines 299-305.  Whether SMARTCTL_PATH names a file is settled here for
\* the whole test.
test_smart_short_start ==
    /\ pc = "call"
    /\ current_test = "smart_short"
    /\ progress' = OnProgress("smart_short", 5)
    /\ loc' = [NoLocals EXCEPT !.i = 1]
    /\ pc' = "smart_short_drivers"
    /\ \E missing \in BOOLEAN :
         Meet("smart_short", IF missing THEN { Fact("tool_missing") } ELSE {})
    /\ UNCHANGED << static, threads, procs, session, child, idx, result, started,
                    notified, session_completes, ui >>

\* lines 317-322: whether one answer of the tool counts as a started test.
SmartShortStarted(out, rc0) ==
    \/ "begun" \in out
    \/ ("usb_bridge" \notin out /\ rc0)

\* lines 330-360: the driver list is exhausted without success.  Both
\* SKIPPED results are built with data=parsed, a name the function never
\* binds: building them raises NameError outside any try of the method,
\* and lines 237-243 turn it into a FAILED result.
SmartShortNotStarted(out) ==
    IF "in_progress" \in out THEN "raise"
    ELSE IF "unsupported" \in out THEN "raise"
    ELSE "failed"

\* lines 307-328, one iteration: the tool answers with some output and
\* return code, or subprocess.run raises (a timeout; FileNotFoundError at
\* every attempt when the tool is missing) and the previous output is
\* kept.
test_smart_short_try ==
    /\ pc = "smart_short_drivers"
    /\ \E raises \in BOOLEAN, out \in SUBSET SmartStartMarkers, rc0 \in BOOLEAN :
         LET output == IF raises THEN loc.output ELSE out
             success == ~raises /\ SmartShortStarted(out, rc0)
         IN  /\ Fact("tool_missing") \in Seen("smart_short") => raises
             /\ IF success
                THEN /\ loc' = [NoLocals EXCEPT !.elapsed = 0]
                     /\ pc' = "smart_short_poll"
                     /\ Meet("smart_short", { Fact("started") })
                     /\ UNCHANGED << result, raised >>
                ELSE IF loc.i < Len(SmartShortDrivers)
                THEN /\ loc' = [loc EXCEPT !.i = loc.i + 1, !.output = output]
                     /\ UNCHANGED << pc, result, raised, seen >>
                ELSE IF SmartShortNotStarted(output) = "raise"
                THEN /\ loc' = NoLocals
                     /\ Meet("smart_short",
                             { Fact(m) : m \in output \cap { "in_progress",
                                                              "unsupported" } })
                     /\ Raise("smart_short", NameErrorParsed)
                     /\ pc' = "except"
                     /\ UNCHANGED result
                ELSE /\ loc' = NoLocals
                     /\ Return(TestResult("smart_short", FAILED,
                                          "Falha ao iniciar teste"))
                     /\ UNCHANGED << raised, seen >>
    /\ UNCHANGED << static, threads, procs, session, child, idx, callbacks, cancel_log >>

\* The progress value of a poll without the cap of line 379.
SmartShortProgress_uncapped(elapsed) ==
    10 + (elapsed * 85) \div SmartShortEstimate

\* line 379
SmartShortProgress(elapsed) ==
    LET p == 10 + (elapsed * 85) \div SmartShortEstimate
    IN  IF p < ProgressCap THEN p ELSE ProgressCap

\* lines 367-414, one iteration of the polling loop (or its exit): the
\* flag is read, the worker sleeps, reports progress and reads the
\* self-test log.
test_smart_short_poll ==
    /\ pc = "smart_short_poll"
    /\ IF ~(loc.elapsed < SmartShortEstimate + SmartShortGrace)
       THEN /\ Return(TestResult("smart_short", COMPLETED,
                                 "Teste iniciado (verifique resultados depois)"))
            /\ loc' = NoLocals
            /\ UNCHANGED << progress, seen >>
       ELSE IF is_cancelled
       THEN /\ Return(TestResult("smart_short", CANCELLED, "Cancelado pelo usuario"))
            /\ loc' = NoLocals
            /\ UNCHANGED << progress, seen >>
       ELSE LET elapsed == loc.elapsed + SmartShortPollInterval
            IN  /\ progress' = OnProgress("smart_short", SmartShortProgress(elapsed))
                /\ \E log \in { "completed", "failed", "running", "raises" } :
                     CASE log = "completed" ->
                            /\ Return(TestResult("smart_short", COMPLETED,
                                                 "SMART Short Test passou"))
                            /\ Meet("smart_short", { Fact("terminal_phrase") })
                            /\ loc' = NoLocals
                       [] log = "failed" ->
                            /\ Return(TestResult("smart_short", FAILED,
                                                 "SMART Short Test detectou problemas"))
                            /\ Meet("smart_short", { Fact("terminal_phrase") })
                            /\ loc' = NoLocals
                       [] OTHER ->
                            /\ loc' = [loc EXCEPT !.elapsed = elapsed]
                            /\ UNCHANGED << pc, result, seen >>
    /\ UNCHANGED << static, threads, procs, session, child, idx, started, notified,
                    session_completes, ui >>

(***************************************************************************)
(* TestRunner._test_read_sample                                            *)
(***************************************************************************)

\* lines 421-438: the size query.  A raise (FileNotFoundError when
\* blockdev is missing, a timeout, a stdout that is no integer) is caught
\* at line 484.
test_read_sample_start ==
    /\ pc = "call"
    /\ current_test = "read_sample"
    /\ progress' = OnProgress("read_sample", 5)
    /\ \E size \in { "ok", "rc_nonzero", "raises", "missing" } :
         CASE size \in { "raises", "missing" } ->
                /\ Raise("read_sample", ErroE)
                /\ Return(TestResult("read_sample", FAILED, ErroE))
                /\ Meet("read_sample",
                        IF size = "missing" THEN { Fact("tool_missing") } ELSE {})
                /\ UNCHANGED loc
           [] size = "rc_nonzero" ->
                /\ Return(TestResult("read_sample", SKIPPED,
                                     "Nao foi possivel obter tamanho do disco"))
                /\ UNCHANGED << loc, raised, seen >>
           [] size = "ok" ->
                /\ loc' = NoLocals
                /\ pc' = "read_sample_loop"
                /\ UNCHANGED << result, raised, seen >>
    /\ UNCHANGED << static, threads, procs, session, child, idx, started, notified,
                    session_completes, cancel_log >>

\* line 457
ReadSampleProgress(i) == 10 + (i * 85) \div ReadSamples

\* lines 469-482
ReadSampleVerdict(errors) ==
    IF errors > 0
    THEN TestResult("read_sample", FAILED, "{errors} erros em {samples} amostras")
    ELSE TestResult("read_sample", COMPLETED,
                    "Todas as {samples} amostras lidas com sucesso")

\* lines 445-467, one iteration (or the loop's exit): the read either
\* returns (whatever its exit status: the call has no check=True and the
\* status is not read) or raises, and only a raise is counted.
test_read_sample_loop ==
    /\ pc = "read_sample_loop"
    /\ IF ~(loc.i < ReadSamples)
       THEN /\ Return(ReadSampleVerdict(loc.errors))
            /\ Meet("read_sample", { Fact("ten_reads") })
            /\ loc' = NoLocals
            /\ UNCHANGED progress
       ELSE IF is_cancelled
       THEN /\ Return(TestResult("read_sample", CANCELLED, "Cancelado"))
            /\ loc' = NoLocals
            /\ UNCHANGED << progress, seen >>
       ELSE /\ progress' = OnProgress("read_sample", ReadSampleProgress(loc.i))
            /\ \E dd \in { "ok", "io_error", "raises" } :
                 /\ loc' = [loc EXCEPT !.i = loc.i + 1,
                                       !.errors = IF dd = "raises"
                                                  THEN loc.errors + 1
                                                  ELSE loc.errors]
                 /\ Meet("read_sample",
                         IF dd = "ok" THEN {} ELSE { Fact("read_failed") })
            /\ UNCHANGED << pc, result >>
    /\ UNCHANGED << static, threads, procs, session, child, idx, started, notified,
                    session_completes, ui >>

(***************************************************************************)
(* TestRunner._test_speed                                                  *)
(***************************************************************************)

\* lines 497-507: the first progress value, then the blocking transfer
\* (subprocess.run with a 60 s timeout; the flag is not read).
test_speed_start ==
    /\ pc = "call"
    /\ current_test = "speed_test"
    /\ progress' = OnProgress("speed_test", 10)
    /\ pc' = "speed_dd"
    /\ UNCHANGED << static, seen, threads, procs, session, child, idx, result, loc, started,
                    notified, session_completes, ui >>

\* lines 516-548 after a transfer that returned: with a throughput figure
\* in the output the result is built with data=parsed, an unbound name;
\* the NameError is caught at line 557.
SpeedVerdict(has_figure) ==
    IF has_figure THEN TestResult("speed_test", FAILED, NameErrorParsed)
    ELSE TestResult("speed_test", COMPLETED, "Teste concluido")

\* lines 550-556: the timeout has a handler and a message of its own.
SpeedTimeout == TestResult("speed_test", FAILED, "Timeout - disco muito lento")

\* The throughput figures of the transfer tool's output: the number and
\* the unit that line 514 matches.
SpeedFigures ==
    { Figure("MB", n) : n \in { 20, 21, 50, 51, 100, 101 } }
        \cup { Figure("GB", 1) }

\* lines 507-563
test_speed_finish ==
    /\ pc = "speed_dd"
    /\ \E dd \in { "figure", "no_figure", "timeout", "raises" } :
         CASE dd = "timeout" ->
                /\ Return(SpeedTimeout)
                /\ Meet("speed_test", { Fact("timeout") })
                /\ UNCHANGED << progress, raised >>
           [] dd = "raises" ->
                /\ Raise("speed_test", ErroE)
                /\ Return(TestResult("speed_test", FAILED, ErroE))
                /\ UNCHANGED << progress, seen >>
           [] dd = "figure" ->
                /\ progress' = OnProgress("speed_test", 90)
                /\ \E figure \in SpeedFigures : Meet("speed_test", { figure })
                /\ Raise("speed_test", NameErrorParsed)
                /\ Return(SpeedVerdict(TRUE))
           [] dd = "no_figure" ->
                /\ progress' = OnProgress("speed_test", 90)
                /\ Return(SpeedVerdict(FALSE))
                /\ UNCHANGED << raised, seen >>
    /\ UNCHANGED << static, threads, procs, session, child, idx, loc, started, notified,
                    session_completes, cancel_log >>

(***************************************************************************)
(* TestRunner._test_f3probe                                                *)
(***************************************************************************)

\* Popen.terminate(): SIGTERM to a live child, nothing to a dead one.
Terminate(c) == IF c = "running" THEN "terminating" ELSE c

\* The log of signals after one is sent by `by`: a dead child gets none.
Signal(by, sig) ==
    IF child \in { "running", "terminating" }
    THEN Append(signals, [by |-> by, sig |-> sig])
    ELSE signals

\* str(e) of the AttributeError of a call through a handle that is None.
NoneTypeError(name) ==
    CASE name = "terminate" ->
           "Erro: 'NoneType' object has no attribute 'terminate'"
      [] name = "poll" ->
           "Erro: 'NoneType' object has no attribute 'poll'"
      [] name = "kill" ->
           "Erro: 'NoneType' object has no attribute 'kill'"

\* lines 570-587: the tool check, the first progress value, the spawn.  A
\* raise of Popen is caught at line 653.
test_f3probe_start ==
    /\ pc = "call"
    /\ current_test = "f3probe"
    /\ \E installed \in BOOLEAN, spawn \in { "ok", "raises" } :
         IF ~installed
         THEN /\ Return(TestResult("f3probe", SKIPPED, "f3probe nao instalado"))
              /\ Meet("f3probe", { Fact("tool_missing") })
              /\ UNCHANGED << progress, current_process, child, loc, raised,
                              procs >>
         ELSE /\ progress' = OnProgress("f3probe", 5)
              /\ UNCHANGED seen
              /\ IF spawn = "raises"
                 THEN /\ Raise("f3probe", ErroE)
                      /\ Return(TestResult("f3probe", FAILED, ErroE))
                      /\ UNCHANGED << current_process, child, loc, procs >>
                 ELSE /\ current_process' = "Popen"
                      /\ child' = "running"
                      /\ spawned' = Append(spawned, [test |-> "f3probe",
                                                     flag |-> "--destructive"])
                      /\ signals' = << >>
                      /\ loc' = NoLocals
                      /\ pc' = "f3probe_loop"
                      /\ UNCHANGED << result, raised >>
    /\ UNCHANGED << static, threads, results, current_test, is_running,
                    is_cancelled, idx, started, notified, session_completes,
                    cancel_log >>

\* line 605
F3ProbeProgress(elapsed) ==
    LET p == 10 + (elapsed * 85) \div F3ProbeEstimate
    IN  IF p < ProgressCap THEN p ELSE ProgressCap

\* lines 613-651 on natural exit: the handle is cleared, then
\* cls._parse_f3probe_output is looked up; the AttributeError is caught
\* at line 653, whatever the output holds.
F3ProbeVerdict(out) ==
    IF ~HasAttr("_parse_f3probe_output")
    THEN TestResult("f3probe", FAILED, AttrError("_parse_f3probe_output"))
    ELSE IF "good news" \in out
    THEN TestResult("f3probe", COMPLETED, "Disco AUTENTICO confirmado")
    ELSE IF "bad news" \in out \/ "fake" \in out
    THEN TestResult("f3probe", FAILED, "DISCO FALSO DETECTADO!")
    ELSE IF "permission denied" \in out
    THEN TestResult("f3probe", FAILED, "Sem permissao (execute como root)")
    ELSE TestResult("f3probe", COMPLETED, "Teste concluido")

F3ProbeMarkers == { "good news", "bad news", "fake", "permission denied" }

\* A call through session._current_process while it is None: the
\* AttributeError is caught by the test's own handler.
NoneHandle(id, name) ==
    /\ Raise(id, NoneTypeError(name))
    /\ Return(TestResult(id, FAILED, NoneTypeError(name)))

\* lines 590-611, one iteration: the flag is read; then the child is
\* polled; a live child gives a progress value and a 2 s sleep.
test_f3probe_loop ==
    /\ pc = "f3probe_loop"
    /\ IF is_cancelled
       THEN IF current_process = None
            THEN /\ NoneHandle("f3probe", "terminate")
                 /\ loc' = NoLocals
                 /\ UNCHANGED << current_process, child, signals, progress,
                                 seen >>
            ELSE /\ child' = Terminate(child)
                 /\ signals' = Signal("worker", "TERM")
                 /\ Return(TestResult("f3probe", CANCELLED, "Cancelado"))
                 /\ loc' = NoLocals
                 /\ UNCHANGED << current_process, progress, raised, seen >>
       ELSE IF current_process = None
       THEN /\ NoneHandle("f3probe", "poll")
            /\ loc' = NoLocals
            /\ UNCHANGED << current_process, child, signals, progress, seen >>
       ELSE IF child = "exited"
       THEN /\ current_process' = None
            /\ \E out \in SUBSET F3ProbeMarkers :
                 /\ Return(F3ProbeVerdict(out))
                 /\ Meet("f3probe",
                         { Fact("exited") } \cup { Fact(m) : m \in out })
                 /\ IF HasAttr("_parse_f3probe_output")
                    THEN UNCHANGED raised
                    ELSE Raise("f3probe", AttrError("_parse_f3probe_output"))
            /\ loc' = NoLocals
            /\ UNCHANGED << child, signals, progress >>
       ELSE /\ loc.polls < MaxF3Polls
            /\ progress' = OnProgress("f3probe", F3ProbeProgress(loc.elapsed))
            /\ loc' = [loc EXCEPT !.elapsed = loc.elapsed + F3ProbeSleep,
                                  !.polls = loc.polls + 1]
            /\ UNCHANGED << current_process, child, signals, pc, result,
                            raised, seen >>
    /\ UNCHANGED << static, threads, spawned, results, current_test,
                    is_running, is_cancelled, idx, started, notified,
                    session_completes, cancel_log >>

(***************************************************************************)
(* _run_badblocks, _is_mounted (lines 725-866): the surface scan, as       *)
(* written.  The actions are enabled only where TestRunner binds the       *)
(* names.                                                                  *)
(***************************************************************************)

SurfaceScans == { "badblocks_ro", "badblocks_rw", "badblocks_wipe" }

\* lines 749-756: the flag appended to the command line.
ScanFlag(mode) ==
    CASE mode = "wipe" -> "-w"
      [] mode = "rw" -> "-n"
      [] OTHER -> ""

\* lines 749-756
TotalPasses(mode) == IF mode \in { "wipe", "rw" } THEN 4 ELSE 1

\* The lines the scan tool writes on stderr, one per phase: TRUE for a
\* line that holds the word "pattern" (a write phase), FALSE for one that
\* does not (a read phase).  -w writes four patterns, -n one, the
\* read-only scan none.
Patterns(mode) ==
    CASE mode = "wipe" -> IF MaxPatterns < 4 THEN MaxPatterns ELSE 4
      [] mode = "rw" -> 1
      [] OTHER -> 0

ScanStderr(mode) ==
    IF mode = "ro" THEN << FALSE >>
    ELSE [ n \in 1..(2 * Patterns(mode)) |-> n % 2 = 1 ]

\* lines 808-819
ScanProgress(pct, cp, total_passes) ==
    LET overall_pct == IF total_passes > 1
                       THEN ((cp - 1) * 100 + pct) \div total_passes
                       ELSE pct
        low == IF overall_pct < 99 THEN overall_pct ELSE 99
    IN  IF low > 5 THEN low ELSE 5

\* lines 729-770: the tool check, the mount check, the command line, the
\* spawn.  A raise of Popen is caught at line 853.
run_badblocks_start ==
    /\ pc = "call"
    /\ current_test \in SurfaceScans
    /\ HasAttr("_run_badblocks")
    /\ \E spawn \in { "ok", "raises" } :
         IF ~badblocks_exists
         THEN /\ Return(TestResult(current_test, SKIPPED,
                                   "badblocks nao encontrado"))
              /\ UNCHANGED << current_process, child, scan, procs, raised >>
         ELSE IF HasAttr("_is_mounted") /\ mounted
         THEN /\ Return(TestResult(current_test, FAILED,
                                   "Disco montado! Desmonte antes de testar."))
              /\ UNCHANGED << current_process, child, scan, procs, raised >>
         ELSE IF spawn = "raises"
         THEN /\ Raise(current_test, ErroE)
              /\ Return(TestResult(current_test, FAILED, ErroE))
              /\ UNCHANGED << current_process, child, scan, procs >>
         ELSE /\ current_process' = "Popen"
              /\ child' = "running"
              /\ spawned' = Append(spawned,
                                   [test |-> current_test,
                                    flag |-> ScanFlag(Mode(current_test))])
              /\ signals' = << >>
              /\ scan' = [mode |-> Mode(current_test), last_pct |-> 0,
                          current_pass |-> 1, pos |-> 0]
              /\ pc' = "badblocks_loop"
              /\ UNCHANGED << result, raised >>
    /\ UNCHANGED << static, seen, canceller, results, current_test, is_running,
                    is_cancelled, idx, loc, callbacks, cancel_log >>

\* lines 772-780, the thread t_err: one line of stderr is read; its first
\* percentage replaces last_pct; the word "pattern" advances current_pass.
read_stderr ==
    /\ pc \in { "badblocks_loop", "badblocks_wait" }
    /\ scan.pos < Len(ScanStderr(scan.mode))
    /\ \E figure \in ScanPercents :
         scan' = [scan EXCEPT
                    !.pos = scan.pos + 1,
                    !.last_pct = figure,
                    !.current_pass =
                        IF ScanStderr(scan.mode)[scan.pos + 1]
                        THEN IF scan.current_pass + 1 < TotalPasses(scan.mode)
                             THEN scan.current_pass + 1
                             ELSE TotalPasses(scan.mode)
                        ELSE scan.current_pass]
    /\ UNCHANGED << static, seen, canceller, procs, session, child, pc, idx, result,
                    loc, callbacks, ui >>

\* line 836: f"{bad_blocks[0]} blocos defeituosos!"
BadBlocksMessage(n) ==
    CASE n = 1 -> "1 blocos defeituosos!"
      [] n = 2 -> "2 blocos defeituosos!"
      [] OTHER -> "{n} blocos defeituosos!"

\* The verdict of lines 833-851.
ScanVerdict(id, bad_blocks) ==
    IF bad_blocks > 0
    THEN TestResult(id, FAILED, BadBlocksMessage(bad_blocks))
    ELSE TestResult(id, COMPLETED, "Nenhum bloco defeituoso")

\* The reader threads that are still inside their loops (lines 773 and
\* 783): t_err with lines of stderr left to read, t_out with numeric lines
\* written that it has not counted.
StillReading(bad_blocks, written) ==
    (IF scan.pos < Len(ScanStderr(scan.mode))
     THEN { Fact("t_err reading") } ELSE {})
        \cup (IF bad_blocks < written THEN { Fact("t_out reading") } ELSE {})

\* lines 794-851, one iteration: the child is polled; then the flag is
\* read; a live child and a clear flag give a progress value and a 1 s
\* sleep.  An exited child leaves the loop: joins, handle cleared, verdict.
\* The tool has written `written` numeric lines on stdout by its exit;
\* the thread t_out (lines 782-788) counts them one by one in
\* bad_blocks[0], and t_out.join(timeout=3) of line 830 returns when the
\* thread has ended or when 3 s have passed, whichever is first: line 833
\* reads the count of the lines the thread has got through by then.  Both
\* joins (lines 831-832) are made on this path only.
run_badblocks_loop ==
    /\ pc = "badblocks_loop"
    /\ IF current_process = None
       THEN /\ NoneHandle(current_test, "poll")
            /\ scan' = NoScan
            /\ UNCHANGED << current_process, child, signals, progress, loc,
                            seen >>
       ELSE IF child = "exited"
       THEN /\ current_process' = None
            /\ \E written \in 0..MaxBadBlocks, bad_blocks \in 0..MaxBadBlocks :
                 /\ bad_blocks <= written
                 /\ Return(ScanVerdict(current_test, bad_blocks))
                 /\ Meet(current_test,
                         { Fact("exited"), Fact("joins made"),
                           Figure("written", written) }
                             \cup StillReading(bad_blocks, written))
            /\ scan' = NoScan
            /\ UNCHANGED << child, signals, progress, raised, loc >>
       ELSE IF is_cancelled
       THEN /\ child' = Terminate(child)
            /\ signals' = Signal("worker", "TERM")
            /\ pc' = "badblocks_wait"
            /\ UNCHANGED << current_process, scan, progress, raised, result,
                            loc, seen >>
       ELSE /\ loc.polls < MaxScanPolls
            /\ progress' = OnProgress(current_test,
                                      ScanProgress(scan.last_pct,
                                                   scan.current_pass,
                                                   TotalPasses(scan.mode)))
            /\ loc' = [loc EXCEPT !.polls = loc.polls + 1]
            /\ UNCHANGED << current_process, child, signals, scan, pc,
                            result, raised, seen >>
    /\ UNCHANGED << static, canceller, spawned, results, current_test,
                    is_running, is_cancelled, idx, started, notified,
                    session_completes, cancel_log >>

\* lines 797-806: wait(timeout=5), kill() when the wait ends by an
\* exception, then the CANCELLED result; the handle is left as it is and
\* neither reader thread is joined.
run_badblocks_wait ==
    /\ pc = "badblocks_wait"
    /\ Meet(current_test, { Fact("terminated") } \cup StillReading(0, 0))
    /\ IF current_process = None
       THEN /\ NoneHandle(current_test, "kill")
            /\ UNCHANGED << child, signals >>
       ELSE /\ \/ /\ child = "exited"
                  /\ UNCHANGED << child, signals >>
               \/ /\ child # "exited"
                  /\ signals' = Signal("worker", "KILL")
                  /\ child' = "exited"
            /\ Return(TestResult(current_test, CANCELLED, "Cancelado"))
            /\ UNCHANGED raised
    /\ scan' = NoScan
    /\ UNCHANGED << static, canceller, spawned, results, current_test,
                    is_running, is_cancelled, current_process, idx, loc,
                    callbacks, cancel_log >>

(***************************************************************************)
(* The environment of the worker: the child process, and the host        *)
(* application that holds the session.                                     *)
(***************************************************************************)

\* The child process ends, by itself or on the SIGTERM it was sent.
child_exits ==
    /\ child \in { "running", "terminating" }
    /\ child' = "exited"
    /\ UNCHANGED << static, seen, threads, procs, session, pc, idx, result, loc, callbacks, ui >>

\* TestSession.is_cancelled is a plain field of the session object (line
\* 87): the holder of the session writes it.  (The repository's own
\* holders write it through cancel_session only: cancel_tests below.)
set_is_cancelled ==
    /\ ~is_cancelled
    /\ is_cancelled' = TRUE
    /\ UNCHANGED << static, seen, threads, procs, results, current_test, is_running,
                    current_process, child, pc, idx, result, loc, callbacks, ui >>

\* DiagnosticController.cancel_tests (and the wizard's two cancel handlers):
\* TestRunner.cancel_session(self.session).  The attribute lookup raises
\* AttributeError before any statement of lines 869-881 runs, and the
\* handler's remaining statements are skipped.
cancel_tests ==
    /\ Len(cancel_log) < MaxCancelCalls
    /\ ~HasAttr("cancel_session")
    /\ cancel_log' = Append(cancel_log,
                            [test |-> current_test, child |-> child,
                             executing |-> pc \in BodyPcs, raised |-> TRUE])
    /\ UNCHANGED << static, seen, threads, procs, session, child, pc, idx, result, loc,
                    callbacks, raised >>

\* cancel_session, line 871 and the test of line 872.
cancel_session_enter ==
    /\ canceller = "idle"
    /\ Len(cancel_log) < MaxCancelCalls
    /\ HasAttr("cancel_session")
    /\ is_cancelled' = TRUE
    /\ cancel_log' = Append(cancel_log,
                            [test |-> current_test, child |-> child,
                             executing |-> pc \in BodyPcs, raised |-> FALSE])
    /\ canceller' = IF current_process = None THEN "done" ELSE "terminate"
    /\ UNCHANGED << static, seen, scan, procs, results, current_test, is_running,
                    current_process, child, pc, idx, result, loc, callbacks,
                    raised >>

\* line 874: terminate().  Through a handle that the worker has cleared
\* in between, the call raises; the handler's kill() raises too and is
\* passed over (lines 876-880); line 881 follows.
cancel_session_terminate ==
    /\ canceller = "terminate"
    /\ IF current_process = None
       THEN /\ canceller' = "done"
            /\ UNCHANGED << child, signals >>
       ELSE /\ child' = Terminate(child)
            /\ signals' = Signal("cancel", "TERM")
            /\ canceller' = "wait"
    /\ UNCHANGED << static, seen, scan, spawned, session, pc, idx, result, loc,
                    callbacks, ui >>

\* lines 875-881: wait(timeout=5) returns when the child has exited;
\* when it times out, kill(); then the handle is cleared.
cancel_session_wait ==
    /\ canceller = "wait"
    /\ \/ /\ (current_process = None \/ child = "exited")
          /\ UNCHANGED << child, signals >>
       \/ /\ current_process # None
          /\ child # "exited"
          /\ signals' = Signal("cancel", "KILL")
          /\ child' = "exited"
    /\ current_process' = None
    /\ canceller' = "done"
    /\ UNCHANGED << static, seen, scan, spawned, results, current_test, is_running,
                    is_cancelled, pc, idx, result, loc, callbacks, ui >>

\* The steps of the worker that do not depend on what TestRunner binds.
Worker ==
    \/ run_tests_enter
    \/ run_tests_next
    \/ run_tests_leave
    \/ run_tests_store
    \/ run_tests_notify
    \/ run_tests_exit
    \/ run_tests_session_complete
    \/ test_quick
    \/ test_not_implemented
    \/ run_single_test_except
    \/ test_smart_short_start
    \/ test_smart_short_try
    \/ test_smart_short_poll
    \/ test_read_sample_start
    \/ test_read_sample_loop
    \/ test_speed_start
    \/ test_speed_finish
    \/ test_f3probe_start
    \/ test_f3probe_loop

Next ==
    \/ Worker
    \/ test_badblocks
    \/ child_exits
    \/ set_is_cancelled

\* The worker, the child process and the session's holder.
Spec == Init /\ [][Next]_vars

\* The worker scheduled fairly, and a child process that ends.
FairSpec ==
    /\ Spec
    /\ WF_vars(Worker \/ test_badblocks)
    /\ WF_vars(child_exits)

NextUI ==
    \/ Worker
    \/ test_badblocks
    \/ child_exits
    \/ cancel_tests

\* The program as shipped: the only holders of a session are the UI's
\* handlers, which touch it through TestRunner alone.
SpecUI == Init /\ [][NextUI]_vars

\* The definitions of lines 662-881 taken as the members of TestRunner
\* that their decorators and their use of cls declare.
InitBound ==
    /\ attrs = TestRunnerAttrs \cup NestedDefs
    /\ Session

NextBound ==
    \/ Worker
    \/ run_badblocks_start
    \/ read_stderr
    \/ run_badblocks_loop
    \/ run_badblocks_wait
    \/ child_exits
    \/ cancel_session_enter
    \/ cancel_session_terminate
    \/ cancel_session_wait

\* The routines of lines 662-881 themselves, which Spec never reaches.
SpecBound == InitBound /\ [][NextBound]_vars


(***************************************************************************)
(* core/smart_parser.py: SmartParser.parse and SmartAttribute.is_failing   *)
(***************************************************************************)

\* The names the model gives to the disk model each attempt's stdout
\* prints on its "Device Model:" line, when it prints one.
ModelNames ==
    << "model#1", "model#2", "model#3", "model#4", "model#5", "model#6" >>

\* The texts of a stdout: empty; a text with none of the phrases; the
\* bridge error; an identity section; a SMART section.
Stdouts ==
    { {}, { "other" }, { "SMART", "Unknown USB bridge" }, { "Model" },
      { "SMART", "SMART support is: Available" } }

\* What subprocess.run of line 200 does: it returns with some stdout, it
\* raises TimeoutExpired, or it raises something else (FileNotFoundError
\* when smartctl is missing).
Answers ==
    { [kind |-> "timeout", stdout |-> {}], [kind |-> "raises", stdout |-> {}] }
        \cup { [kind |-> "returns", stdout |-> t] : t \in Stdouts }

\* lines 205-207
Acceptable_any_bridge(stdout) ==
    /\ stdout # {}
    /\ ("SMART" \in stdout \/ "Model" \in stdout)

Acceptable(stdout) ==
    /\ stdout # {}
    /\ ("SMART" \in stdout \/ "Model" \in stdout)
    /\ "Unknown USB bridge" \notin stdout

\* The handlers of lines 212-216 with the second one left out.
ParseCatches_timeout_only(kind) == kind = "timeout"

\* lines 212-216: the exceptions of an attempt that the loop passes over.
ParseCatches(kind) == kind \in { "timeout", "raises" }

\* lines 187-191
parse_enter ==
    /\ parse_pc = "idle"
    /\ smart' = SmartData
    /\ parse_loc' = [output |-> NoOutput, used_driver |-> ""]
    /\ tried' = << >>
    /\ parse_pc' = "drivers"
    /\ UNCHANGED << analysis, attrs, mounted, badblocks_exists, tests_to_run, attribute,
                    verdicts, seen, threads, procs, session, child, pc, idx,
                    result, loc, callbacks, ui >>

\* lines 193-216, one iteration: the next hint is given to the tool; an
\* acceptable stdout is kept and ends the loop; a raise that a handler
\* catches, or any other stdout, goes on to the next hint.
parse_try ==
    /\ parse_pc = "drivers"
    /\ Len(tried) < Len(SMART_DRIVERS)
    /\ \E answer \in Answers :
         LET i == Len(tried) + 1
             driver == SMART_DRIVERS[i]
         IN  /\ tried' = Append(tried, [driver |-> driver, answer |-> answer])
             /\ IF answer.kind = "returns"
                THEN IF Acceptable(answer.stdout)
                     THEN /\ parse_loc' = [output |-> [attempt |-> i,
                                                       stdout |-> answer.stdout],
                                           used_driver |-> driver]
                          /\ parse_pc' = "after"
                     ELSE /\ parse_pc' = IF i < Len(SMART_DRIVERS)
                                         THEN "drivers" ELSE "after"
                          /\ UNCHANGED parse_loc
                ELSE IF ParseCatches(answer.kind)
                THEN /\ parse_pc' = IF i < Len(SMART_DRIVERS)
                                    THEN "drivers" ELSE "after"
                     /\ UNCHANGED parse_loc
                ELSE /\ parse_pc' = "raised"
                     /\ UNCHANGED parse_loc
    /\ UNCHANGED << analysis, attrs, mounted, badblocks_exists, tests_to_run, smart,
                    attribute, verdicts, seen, threads, procs, session, child,
                    pc, idx, result, loc, callbacks, ui >>

\* lines 222-223, 237-239, 265: the fields read out of the accepted text.
Parsed(output, used_driver) ==
    [driver |-> used_driver,
     raw_output |-> output,
     model |-> IF "Model" \in output.stdout
               THEN ModelNames[output.attempt] ELSE "",
     smart_supported |-> \/ "SMART support is: Available" \in output.stdout
                         \/ "SMART/Health" \in output.stdout]

\* lines 218-231
parse_finish ==
    /\ parse_pc = "after"
    /\ smart' = IF parse_loc.output = NoOutput
                THEN smart
                ELSE Parsed(parse_loc.output, parse_loc.used_driver)
    /\ parse_pc' = "returned"
    /\ UNCHANGED << analysis, attrs, mounted, badblocks_exists, tests_to_run, tried,
                    parse_loc, attribute, verdicts, seen, threads, procs,
                    session, child, pc, idx, result, loc, callbacks, ui >>

\* No session: the parser is called by itself.
InitParse ==
    /\ attrs = TestRunnerAttrs
    /\ mounted = FALSE
    /\ badblocks_exists = FALSE
    /\ tests_to_run = << >>
    /\ NoParse
    /\ NoHealth
    /\ NoFake
    /\ Fresh
    /\ NoDisk
    /\ Closed

NextParse ==
    \/ parse_enter
    \/ parse_try
    \/ parse_finish

\* One call of SmartParser.parse(device), the tool answering as it may.
SpecParse == InitParse /\ [][NextParse]_vars

\* SmartAttribute.is_failing, lines 87-89, with the test of the threshold
\* left out.
is_failing_any_threshold(self) == self.value <= self.threshold

\* SmartAttribute.is_failing, lines 87-89
is_failing(self) == self.value <= self.threshold /\ self.threshold > 0

\* An attribute is asked whether it is failing.
is_failing_call ==
    /\ verdicts = << >>
    /\ verdicts' = << is_failing(attribute) >>
    /\ UNCHANGED << analysis, attrs, mounted, badblocks_exists, tests_to_run, parse_pc,
                    tried, parse_loc, smart, attribute, seen, threads, procs,
                    session, child, pc, idx, result, loc, callbacks, ui >>

\* Some attribute, not asked yet.
InitAttr ==
    /\ attrs = TestRunnerAttrs
    /\ mounted = FALSE
    /\ badblocks_exists = FALSE
    /\ tests_to_run = << >>
    /\ parse_pc = "idle"
    /\ tried = << >>
    /\ parse_loc = [output |-> NoOutput, used_driver |-> ""]
    /\ smart = SmartData
    /\ \E value \in 0..MaxAttrValue, threshold \in 0..MaxAttrValue :
         attribute = SmartAttribute(value, threshold)
    /\ verdicts = << >>
    /\ NoHealth
    /\ NoFake
    /\ Fresh
    /\ NoDisk
    /\ Closed

\* is_failing() applied to every attribute of the bounded ranges.
SpecAttr == InitAttr /\ [][is_failing_call]_vars


(***************************************************************************)
(* core/health_score.py: calculate_health                                  *)
(***************************************************************************)

\* lines 38-88
VENDOR_WEIGHTS ==
    [ v \in { "Western Digital", "Seagate", "Toshiba", "Samsung", "HGST",
              "default" } |->
        CASE v = "Seagate" ->
               [Reallocated_Sector_Ct |-> 30, Current_Pending_Sector |-> 40,
                Offline_Uncorrectable |-> 40, UDMA_CRC_Error_Count |-> 20,
                Power_On_Hours |-> 12]
          [] v = "Samsung" ->
               [Reallocated_Sector_Ct |-> 30, Current_Pending_Sector |-> 35,
                Offline_Uncorrectable |-> 35, UDMA_CRC_Error_Count |-> 15,
                Power_On_Hours |-> 8]
          [] OTHER ->
               [Reallocated_Sector_Ct |-> 35, Current_Pending_Sector |-> 35,
                Offline_Uncorrectable |-> 40, UDMA_CRC_Error_Count |-> 15,
                Power_On_Hours |-> 10] ]

\* lines 91-95
POH_THRESHOLDS == [warning |-> 25000, concern |-> 40000, critical |-> 60000]

\* lines 98-103
TEMP_THRESHOLDS == [ideal |-> 35, good |-> 45, warm |-> 55, hot |-> 65]

\* line 121
Weights(vendor) ==
    IF vendor \in DOMAIN VENDOR_WEIGHTS
    THEN VENDOR_WEIGHTS[vendor]
    ELSE VENDOR_WEIGHTS["default"]

\* int(weight * tenths / 10) for a weight of the tables: the product in
\* floating point, truncated, is the integer quotient.
Share(weight, tenths) == (weight * tenths) \div 10

\* What one of the seven checks does: the amount it subtracts from the
\* score, the factors it appends, the recommendations it appends.
Check(sub, factors, recs) == [sub |-> sub, factors |-> factors, recs |-> recs]

Factor(label, delta, status) == [label |-> label, delta |-> delta, status |-> status]

NoCheck == Check(0, << >>, << >>)

\* lines 124-127
HealthStatusCheck(s) ==
    IF ~s.health_passed
    THEN Check(50, << Factor("SMART Health FALHOU", -50, "critical") >>,
               << "BACKUP IMEDIATO! Disco pode falhar a qualquer momento." >>)
    ELSE NoCheck

\* The tiers of lines 133-148 with >= in place of >.
ReallocatedCheck_inclusive(s, weights) ==
    LET weight == weights.Reallocated_Sector_Ct
        n == s.reallocated_sectors
        penalty == IF n >= 100 THEN weight
                   ELSE IF n >= 10 THEN Share(weight, 7)
                   ELSE Share(weight, 3)
    IN  IF n > 0
        THEN Check(penalty,
                   << Factor("Setores realocados", -penalty,
                             IF n >= 100 THEN "critical" ELSE "warning") >>,
                   IF n >= 100
                   THEN << "Alto numero de setores realocados" >>
                   ELSE IF n >= 10
                   THEN << "Setores realocados detectados" >>
                   ELSE << >>)
        ELSE NoCheck

\* lines 130-152
ReallocatedCheck(s, weights) ==
    LET weight == weights.Reallocated_Sector_Ct
        n == s.reallocated_sectors
        penalty == IF n > 100 THEN weight
                   ELSE IF n > 10 THEN Share(weight, 7)
                   ELSE Share(weight, 3)
    IN  IF n > 0
        THEN Check(penalty,
                   << Factor("Setores realocados", -penalty,
                             IF n > 100 THEN "critical" ELSE "warning") >>,
                   IF n > 100
                   THEN << "Alto numero de setores realocados" >>
                   ELSE IF n > 10
                   THEN << "Setores realocados detectados" >>
                   ELSE << >>)
        ELSE NoCheck

\* lines 155-170
PendingCheck(s, weights) ==
    LET weight == weights.Current_Pending_Sector
        n == s.pending_sectors
        penalty == IF n > 10 THEN weight ELSE Share(weight, 5)
    IN  IF n > 0
        THEN Check(penalty,
                   << Factor("Setores pendentes", -penalty,
                             IF n > 10 THEN "critical" ELSE "warning") >>,
                   IF n > 10 THEN << "ALERTA: setores pendentes!" >> ELSE << >>)
        ELSE NoCheck

\* lines 173-189: int(min(weight, weight * (n / 5))).
UncorrectableCheck(s, weights) ==
    LET weight == weights.Offline_Uncorrectable
        n == s.uncorrectable_sectors
        scaled == (weight * n) \div 5
        penalty == IF weight < scaled THEN weight ELSE scaled
    IN  IF n > 0
        THEN Check(penalty,
                   << Factor("Setores incorrigiveis", -penalty,
                             IF n > 5 THEN "critical" ELSE "warning") >>,
                   << "Setores incorrigiveis indicam dano permanente. Faca backup!" >>)
        ELSE NoCheck

\* lines 192-214
PowerOnHoursCheck(s, weights) ==
    LET weight == weights.Power_On_Hours
        poh == s.power_on_hours
        penalty == IF poh > POH_THRESHOLDS.critical THEN weight
                   ELSE IF poh > POH_THRESHOLDS.concern THEN Share(weight, 6)
                   ELSE IF poh > POH_THRESHOLDS.warning THEN Share(weight, 3)
                   ELSE 0
    IN  IF poh > 0 /\ penalty > 0
        THEN Check(penalty,
                   << Factor("Horas de uso", -penalty,
                             IF poh > POH_THRESHOLDS.critical
                             THEN "warning" ELSE "info") >>,
                   IF poh > POH_THRESHOLDS.critical
                   THEN << "Considere substituicao preventiva." >>
                   ELSE << >>)
        ELSE NoCheck

\* lines 217-241 with the factor of line 241 left out.
TemperatureCheck_unrecorded(s) ==
    LET temp == s.temperature
        penalty == IF temp > TEMP_THRESHOLDS.hot THEN 15
                   ELSE IF temp > TEMP_THRESHOLDS.warm THEN 10
                   ELSE IF temp > TEMP_THRESHOLDS.good THEN 5
                   ELSE 0
    IN  IF temp # 0 /\ penalty > 0
        THEN Check(penalty, << >>, << "Verifique ventilacao." >>)
        ELSE NoCheck

\* lines 217-241 with the penalty of line 221 below that of line 227.
TemperatureCheck_hot_lighter(s) ==
    LET temp == s.temperature
        penalty == IF temp > TEMP_THRESHOLDS.hot THEN 5
                   ELSE IF temp > TEMP_THRESHOLDS.warm THEN 10
                   ELSE IF temp > TEMP_THRESHOLDS.good THEN 5
                   ELSE 0
    IN  IF temp # 0 /\ penalty > 0
        THEN Check(penalty, << Factor("Temperatura", -penalty, "info") >>, << >>)
        ELSE NoCheck

\* lines 217-241
TemperatureCheck(s) ==
    LET temp == s.temperature
        penalty == IF temp > TEMP_THRESHOLDS.hot THEN 15
                   ELSE IF temp > TEMP_THRESHOLDS.warm THEN 10
                   ELSE IF temp > TEMP_THRESHOLDS.good THEN 5
                   ELSE 0
    IN  IF temp # 0 /\ penalty > 0
        THEN Check(penalty,
                   << Factor("Temperatura", -penalty,
                             IF temp > TEMP_THRESHOLDS.hot THEN "critical"
                             ELSE IF temp > TEMP_THRESHOLDS.warm THEN "warning"
                             ELSE "info") >>,
                   IF temp > TEMP_THRESHOLDS.hot
                   THEN << "Temperatura CRITICA! Melhore a ventilacao imediatamente." >>
                   ELSE IF temp > TEMP_THRESHOLDS.warm
                   THEN << "Temperatura alta. Verifique ventilacao." >>
                   ELSE << >>)
        ELSE NoCheck

\* lines 244-260
CrcCheck(s, weights) ==
    LET weight == weights.UDMA_CRC_Error_Count
        n == s.crc
        penalty == IF n > 100 THEN weight ELSE Share(weight, 5)
    IN  IF n > 0
        THEN Check(penalty,
                   << Factor("Erros CRC", -penalty,
                             IF n > 100 THEN "warning" ELSE "info") >>,
                   IF n > 100
                   THEN << "Muitos erros CRC. Verifique cabo SATA/USB." >>
                   ELSE << >>)
        ELSE NoCheck

\* line 263 without its bounds.
Clamp_unbounded(score) == score

\* line 263: max(0, min(100, score))
Clamp(score) ==
    LET low == IF score < 100 THEN score ELSE 100
    IN  IF low > 0 THEN low ELSE 0

\* _get_level_info with the breakpoints of the first two levels exchanged.
get_level_info_exchanged(score) ==
    IF score >= 75 THEN "excellent"
    ELSE IF score >= 90 THEN "good"
    ELSE IF score >= 50 THEN "fair"
    ELSE IF score >= 25 THEN "poor"
    ELSE "critical"

\* _get_level_info, lines 283-294: the HealthLevel
get_level_info(score) ==
    IF score >= 90 THEN "excellent"
    ELSE IF score >= 75 THEN "good"
    ELSE IF score >= 50 THEN "fair"
    ELSE IF score >= 25 THEN "poor"
    ELSE "critical"

KeepMonitoring == "Disco em bom estado. Continue monitorando periodicamente."

\* lines 269-270 left out.
Recommendations_as_collected(recs) == recs

\* lines 269-270
Recommendations(recs) == IF recs = << >> THEN << KeepMonitoring >> ELSE recs

\* The seven checks in the order of lines 123-260.
Checks(s) ==
    LET weights == Weights(s.vendor)
    IN  << HealthStatusCheck(s), ReallocatedCheck(s, weights),
           PendingCheck(s, weights), UncorrectableCheck(s, weights),
           PowerOnHoursCheck(s, weights), TemperatureCheck(s),
           CrcCheck(s, weights) >>

\* calculate_health(smart), lines 106-280
calculate_health ==
    /\ health_pc = "idle"
    /\ LET c == Checks(snapshot)
           score == 100 - c[1].sub - c[2].sub - c[3].sub - c[4].sub
                        - c[5].sub - c[6].sub - c[7].sub
           factors == c[1].factors \o c[2].factors \o c[3].factors
                        \o c[4].factors \o c[5].factors \o c[6].factors
                        \o c[7].factors
           recs == c[1].recs \o c[2].recs \o c[3].recs \o c[4].recs
                     \o c[5].recs \o c[6].recs \o c[7].recs
       IN  health_report' = HealthReport(Clamp(score),
                                         get_level_info(Clamp(score)),
                                         factors, Recommendations(recs))
    /\ health_pc' = "returned"
    /\ UNCHANGED << diagnostic_ui, disk_service, attrs, mounted, badblocks_exists, tests_to_run,
                    smart_parser, snapshot, fake_detector, seen, threads,
                    procs, session, child, pc, idx, result, loc, callbacks,
                    ui >>

\* The snapshots given to calculate_health: each metric on both sides of
\* each of its thresholds.
Snapshots ==
    { SmartMetrics(vendor, health_passed, reallocated, pending, uncorrectable,
                   poh, temperature, crc) :
        vendor \in { "Western Digital", "Seagate", "Samsung", "Unknown" },
        health_passed \in BOOLEAN,
        reallocated \in { 0, 1, 10, 11, 100, 101 },
        pending \in { 0, 1, 10, 11 },
        uncorrectable \in { 0, 1, 3, 5, 6 },
        poh \in { 0, 25000, 25001, 40001, 60001 },
        temperature \in { 0, 45, 46, 56, 66 },
        crc \in { 0, 1, 101 } }

\* Some snapshot, calculate_health not called yet.
InitHealth ==
    /\ attrs = TestRunnerAttrs
    /\ mounted = FALSE
    /\ badblocks_exists = FALSE
    /\ tests_to_run = << >>
    /\ NoParse
    /\ NoFake
    /\ Fresh
    /\ NoDisk
    /\ Closed
    /\ snapshot \in Snapshots
    /\ health_pc = "idle"
    /\ health_report = HealthReport(0, "unknown", << >>, << >>)

\* calculate_health applied to every snapshot of Snapshots.
SpecHealth == InitHealth /\ [][calculate_health]_vars


(***************************************************************************)
(* core/fake_detector.py                                                   *)
(***************************************************************************)

\* TestResult of fake_detector.py, lines 23-28; its "failed" and "skipped"
\* are the strings of FAILED and SKIPPED above.
PASSED == "passed"
WARNING == "warning"
ERROR == "error"

FakeTestResults == { PASSED, FAILED, WARNING, SKIPPED, ERROR }

\* FakeTestResult, lines 66-72.  The message is the sequence of the parts
\* the f-string puts together.
FakeTestResult(name, test_result, message, is_destructive) ==
    [name |-> name, result |-> test_result, message |-> message,
     is_destructive |-> is_destructive]

Abs(n) == IF n < 0 THEN 0 - n ELSE n

Min(a, b) == IF a < b THEN a ELSE b

\* _bytes_to_human, lines 315-321, on hundredths of the unit: the size is
\* divided by 1024 while its absolute value is 1024 or more, up to PB, and
\* printed with two decimals; the sign is kept.  (Exact when the size is a
\* multiple of the unit's hundredth, as the model's sizes are.)
Units == << "B", "KB", "MB", "GB", "TB", "PB" >>

RECURSIVE Scaled(_, _)
Scaled(hundredths, unit) ==
    IF Abs(hundredths) < 102400 \/ unit = Len(Units)
    THEN [hundredths |-> hundredths, unit |-> Units[unit]]
    ELSE Scaled(hundredths \div 1024, unit + 1)

bytes_to_human(size_bytes) == Scaled(size_bytes * 100, 1)

\* CapacityInfo.has_hpa, lines 42-45
has_hpa(cap) ==
    IF cap.hdparm_native_sectors > 0 /\ cap.hdparm_max_sectors > 0
    THEN cap.hdparm_native_sectors # cap.hdparm_max_sectors
    ELSE FALSE

\* CapacityInfo.get_hpa_size_bytes, lines 47-50
get_hpa_size_bytes(cap) ==
    IF has_hpa(cap)
    THEN (cap.hdparm_max_sectors - cap.hdparm_native_sectors) * 512
    ELSE 0

RECURSIVE SeqMax(_)
SeqMax(s) ==
    IF Len(s) = 1 THEN s[1]
    ELSE IF s[1] > SeqMax(Tail(s)) THEN s[1] ELSE SeqMax(Tail(s))

RECURSIVE SeqMin(_)
SeqMin(s) ==
    IF Len(s) = 1 THEN s[1]
    ELSE IF s[1] < SeqMin(Tail(s)) THEN s[1] ELSE SeqMin(Tail(s))

IsPositive(v) == v > 0

\* A tolerance that is reached already fails.
has_capacity_mismatch_inclusive(cap) ==
    LET values == SelectSeq(<< cap.lsblk_bytes, cap.fdisk_bytes,
                               cap.smart_bytes >>, IsPositive)
    IN  IF Len(values) < 2 THEN FALSE
        ELSE (SeqMax(values) - SeqMin(values)) * 100 >= 5 * SeqMax(values)

\* CapacityInfo.has_capacity_mismatch with the default tolerance_pct = 5.0,
\* lines 52-64.  diff_pct = ((max_val - min_val) / max_val) * 100 > 5.0 in
\* floating point; a spread of exactly one twentieth gives exactly 5.0, so
\* the test is the integer comparison below.
has_capacity_mismatch(cap) ==
    LET values == SelectSeq(<< cap.lsblk_bytes, cap.fdisk_bytes,
                               cap.smart_bytes >>, IsPositive)
    IN  IF Len(values) < 2 THEN FALSE
        ELSE IF SeqMax(values) = 0 THEN FALSE
        ELSE (SeqMax(values) - SeqMin(values)) * 100 > 5 * SeqMax(values)

\* _check_hpa, lines 168-183
check_hpa(cap) ==
    IF has_hpa(cap)
    THEN FakeTestResult("HPA", WARNING,
                        << "Area protegida (HPA) detectada",
                           bytes_to_human(get_hpa_size_bytes(cap)) >>, FALSE)
    ELSE FakeTestResult("HPA", PASSED, << "Nenhuma HPA detectada" >>, FALSE)

\* _check_capacity_consistency, lines 185-197
check_capacity_consistency(cap) ==
    IF has_capacity_mismatch(cap)
    THEN FakeTestResult("Capacidade", FAILED,
                        << "Discrepancia significativa entre fontes de capacidade" >>,
                        FALSE)
    ELSE FakeTestResult("Capacidade", PASSED,
                        << "Capacidades consistentes entre fontes" >>, FALSE)

\* _check_suspect_features, lines 199-205
check_suspect_features ==
    FakeTestResult("Caracteristicas suspeitas", SKIPPED,
                   << "Analise de caracteristicas nao implementada nesta versao" >>,
                   FALSE)

\* What the run of f3probe can give: its lower-cased stdout + stderr, as
\* the set of the phrases of lines 216 and 224 that occur in it, or a
\* timeout after 300 s, or another exception of subprocess.run.
ProbeMarkers == { "seems to be", "fake", "real", "genuine" }

ProbeOutcomes ==
    { [kind |-> "output", text |-> t] : t \in SUBSET ProbeMarkers }
        \cup { [kind |-> "timeout", text |-> {}],
               [kind |-> "raises", text |-> {}] }

\* Any output that says fake is a fake disk.
run_f3probe_any_fake(outcome) ==
    IF outcome.kind = "output" /\ "fake" \in outcome.text
    THEN FakeTestResult("f3probe", FAILED,
                        << "Disco falso confirmado pelo f3probe" >>, TRUE)
    ELSE FakeTestResult("f3probe", ERROR,
                        << "Resultado inconclusivo do f3probe" >>, TRUE)

\* _run_f3probe, lines 207-256
run_f3probe(outcome) ==
    IF outcome.kind = "timeout"
    THEN FakeTestResult("f3probe", ERROR,
                        << "Timeout ao executar f3probe" >>, TRUE)
    ELSE IF outcome.kind = "raises"
    THEN FakeTestResult("f3probe", ERROR,
                        << "Erro ao executar f3probe" >>, TRUE)
    ELSE IF "seems to be" \in outcome.text /\ "fake" \in outcome.text
    THEN FakeTestResult("f3probe", FAILED,
                        << "Disco falso confirmado pelo f3probe" >>, TRUE)
    ELSE IF "real" \in outcome.text \/ "genuine" \in outcome.text
    THEN FakeTestResult("f3probe", PASSED,
                        << "Disco parece genuino segundo f3probe" >>, TRUE)
    ELSE FakeTestResult("f3probe", ERROR,
                        << "Resultado inconclusivo do f3probe" >>, TRUE)

\* The tests of a list with one result (get_failed_tests, get_warnings,
\* lines 89-93 and line 262).
WithResult(tests, r) ==
    LET Is(t) == t.result = r IN SelectSeq(tests, Is)

Verdict(status, confidence) == [status |-> status, confidence |-> confidence]

\* The recommendations of lines 293-313.
FakeRecommendations(status, cap) ==
    (IF status \in { "suspicious", "unknown" }
     THEN << "Execute o teste f3probe para confirmacao definitiva" >>
     ELSE << >>)
    \o (IF has_hpa(cap)
        THEN << "Area protegida (HPA) detectada. Pode ser desabilitada" >>
        ELSE << >>)
    \o (IF status = "fake"
        THEN << "NAO use este disco para armazenar dados importantes!",
                "Se foi compra recente, solicite reembolso ao vendedor" >>
        ELSE << >>)

\* The failed probe counted as any other failed test.
final_status_by_count(tests) ==
    LET failed == WithResult(tests, FAILED)
        warnings == WithResult(tests, WARNING)
        passed == WithResult(tests, PASSED)
    IN  IF Len(failed) >= 2
        THEN Verdict("fake", Min(90, 50 + Len(failed) * 30))
        ELSE IF Len(failed) > 0
        THEN Verdict("suspicious",
                     Min(70, 30 + Len(failed) * 30 + Len(warnings) * 10))
        ELSE IF Len(warnings) > 0
        THEN Verdict("suspicious", Min(50, 20 + Len(warnings) * 10))
        ELSE IF Len(passed) > 0
        THEN Verdict("genuine", Min(80, Len(passed) * 20))
        ELSE Verdict("unknown", 0)

\* The status and the confidence of _calculate_final_status, lines 260-291.
final_status(tests) ==
    LET failed == WithResult(tests, FAILED)
        warnings == WithResult(tests, WARNING)
        passed == WithResult(tests, PASSED)
        fail_points == Len(failed) * 30
        warn_points == Len(warnings) * 10
        pass_points == Len(passed) * 20
    IN  IF \E i \in 1..Len(failed) :
               failed[i].name = "f3probe" /\ failed[i].result = FAILED
        THEN Verdict("fake", 100)
        ELSE IF Len(failed) >= 2
        THEN Verdict("fake", Min(90, 50 + fail_points))
        ELSE IF Len(failed) > 0
        THEN Verdict("suspicious", Min(70, 30 + fail_points + warn_points))
        ELSE IF Len(warnings) > 0
        THEN Verdict("suspicious", Min(50, 20 + warn_points))
        ELSE IF Len(passed) > 0
        THEN Verdict("genuine", Min(80, pass_points))
        ELSE Verdict("unknown", 0)

\* _calculate_final_status, lines 258-313
calculate_final_status(report) ==
    LET v == final_status(report.tests)
    IN  [report EXCEPT !.status = v.status,
                       !.confidence = v.confidence,
                       !.recommendations =
                           FakeRecommendations(v.status, report.capacity)]

\* The report quick_check builds from the capacities collected, lines
\* 98-112.
QuickReport(cap) ==
    calculate_final_status(
        [FakeDetectorReport EXCEPT
            !.capacity = cap,
            !.tests = << check_hpa(cap), check_capacity_consistency(cap),
                         check_suspect_features >>])

\* full_check that probes without being allowed to.
FullCheck_unconditional(cap, allow_destructive, outcome) ==
    LET report == QuickReport(cap)
    IN  [report |-> calculate_final_status(
                        [report EXCEPT
                            !.tests = Append(@, run_f3probe(outcome))]),
         probes |-> << outcome >>]

\* The body of full_check, lines 116-123: the report, and the runs of
\* f3probe it made.
FullCheck(cap, allow_destructive, outcome) ==
    LET report == QuickReport(cap)
    IN  IF allow_destructive
        THEN [report |-> calculate_final_status(
                             [report EXCEPT
                                 !.tests = Append(@, run_f3probe(outcome))]),
              probes |-> << outcome >>]
        ELSE [report |-> report, probes |-> << >>]

\* What _collect_capacities (lines 125-166) can return.  Each source is 0
\* when its command fails or its output does not match.  smart_bytes stays
\* 0: SMARTCTL_PATH (line 144) is not among the names imported at line 12,
\* and the NameError is swallowed by the bare except of line 148.
ByteSizes == { 0, 9499, 9500, 10000 }
SectorCounts == { 0, 900, 1000 }

Capacities ==
    { [lsblk_bytes |-> l, fdisk_bytes |-> f, smart_bytes |-> 0,
       hdparm_native_sectors |-> n, hdparm_max_sectors |-> m] :
        l \in ByteSizes, f \in ByteSizes,
        n \in SectorCounts, m \in SectorCounts }

\* FakeDetector.quick_check(device), lines 96-112
quick_check ==
    /\ fake_pc = "idle"
    /\ \E cap \in Capacities :
         fake_report' = QuickReport(cap)
    /\ fake_call' = [entry |-> "quick_check", allow_destructive |-> FALSE]
    /\ probes' = << >>
    /\ fake_pc' = "returned"
    /\ UNCHANGED << diagnostic_ui, disk_service, attrs, mounted, badblocks_exists, tests_to_run,
                    smart_parser, health_score, seen, threads, procs, session,
                    child, pc, idx, result, loc, callbacks, ui >>

\* FakeDetector.full_check(device, allow_destructive), lines 114-123
full_check ==
    /\ fake_pc = "idle"
    /\ \E allow_destructive \in BOOLEAN, cap \in Capacities,
          outcome \in ProbeOutcomes :
         LET r == FullCheck(cap, allow_destructive, outcome)
         IN  /\ fake_report' = r.report
             /\ probes' = r.probes
             /\ fake_call' = [entry |-> "full_check",
                              allow_destructive |-> allow_destructive]
    /\ fake_pc' = "returned"
    /\ UNCHANGED << diagnostic_ui, disk_service, attrs, mounted, badblocks_exists, tests_to_run,
                    smart_parser, health_score, seen, threads, procs, session,
                    child, pc, idx, result, loc, callbacks, ui >>

\* check_fake(device, full), lines 323-326
check_fake ==
    /\ fake_pc = "idle"
    /\ \E full \in BOOLEAN, cap \in Capacities, outcome \in ProbeOutcomes :
         LET r == IF full THEN FullCheck(cap, TRUE, outcome)
                  ELSE [report |-> QuickReport(cap), probes |-> << >>]
         IN  /\ fake_report' = r.report
             /\ probes' = r.probes
             /\ fake_call' = [entry |-> "check_fake",
                              allow_destructive |-> full]
    /\ fake_pc' = "returned"
    /\ UNCHANGED << diagnostic_ui, disk_service, attrs, mounted, badblocks_exists, tests_to_run,
                    smart_parser, health_score, seen, threads, procs, session,
                    child, pc, idx, result, loc, callbacks, ui >>

\* No session, no parse, no health report: the fake detector alone.
InitFake ==
    /\ attrs = TestRunnerAttrs
    /\ mounted = FALSE
    /\ badblocks_exists = FALSE
    /\ tests_to_run = << >>
    /\ NoParse
    /\ NoHealth
    /\ NoFake
    /\ Fresh
    /\ NoDisk
    /\ Closed

NextFake == quick_check \/ full_check \/ check_fake

\* One call of the fake detector by any of its three entry points.
SpecFake == InitFake /\ [][NextFake]_vars


\* The longest list of sub-test results a verdict is computed from.
MaxFakeTests == 5

\* The sub-test results a report can hold: any result for a non-destructive
\* sub-test, and for "f3probe" the three results _run_f3probe returns.
SubTests ==
    { FakeTestResult("Capacidade", r, << >>, FALSE) : r \in FakeTestResults }
        \cup { FakeTestResult("f3probe", r, << >>, TRUE) :
                   r \in { FAILED, PASSED, ERROR } }

SubTestLists == UNION { [1..n -> SubTests] : n \in 0..MaxFakeTests }

\* cls._calculate_final_status(report), lines 111 and 121
calculate_final_status_call ==
    /\ fake_pc = "idle"
    /\ fake_report' = calculate_final_status(fake_report)
    /\ fake_pc' = "returned"
    /\ UNCHANGED << fake_call, probes >>
    /\ UNCHANGED << diagnostic_ui, disk_service, attrs, mounted, badblocks_exists, tests_to_run,
                    smart_parser, health_score, seen, threads, procs, session,
                    child, pc, idx, result, loc, callbacks, ui >>

\* A report with any list of sub-test results, its verdict not computed.
InitVerdict ==
    /\ attrs = TestRunnerAttrs
    /\ mounted = FALSE
    /\ badblocks_exists = FALSE
    /\ tests_to_run = << >>
    /\ NoParse
    /\ NoHealth
    /\ Fresh
    /\ NoDisk
    /\ Closed
    /\ fake_pc = "idle"
    /\ fake_call = [entry |-> None, allow_destructive |-> FALSE]
    /\ fake_report \in { [FakeDetectorReport EXCEPT !.tests = t] :
                             t \in SubTestLists }
    /\ probes = << >>

\* _calculate_final_status applied to every list of SubTestLists.
SpecVerdict == InitVerdict /\ [][calculate_final_status_call]_vars

\* Any CapacityInfo: the three byte counts and the two sector counts.
CapacityInfos ==
    { [lsblk_bytes |-> l, fdisk_bytes |-> f, smart_bytes |-> s,
       hdparm_native_sectors |-> n, hdparm_max_sectors |-> m] :
        l \in ByteSizes, f \in ByteSizes, s \in ByteSizes,
        n \in SectorCounts, m \in SectorCounts }

HasTest(name) ==
    \E i \in 1..Len(fake_report.tests) : fake_report.tests[i].name = name

TestNamed(name) ==
    fake_report.tests[CHOOSE i \in 1..Len(fake_report.tests) :
                          fake_report.tests[i].name = name]

\* report.add_test(cls._check_hpa(device, report.capacity)), lines 102-103
check_hpa_call ==
    /\ ~HasTest("HPA")
    /\ fake_report' = [fake_report EXCEPT
                          !.tests = Append(@, check_hpa(fake_report.capacity))]
    /\ UNCHANGED << fake_pc, fake_call, probes >>
    /\ UNCHANGED << diagnostic_ui, disk_service, attrs, mounted, badblocks_exists, tests_to_run,
                    smart_parser, health_score, seen, threads, procs, session,
                    child, pc, idx, result, loc, callbacks, ui >>

\* report.add_test(cls._check_capacity_consistency(report.capacity)),
\* lines 105-106
check_capacity_consistency_call ==
    /\ ~HasTest("Capacidade")
    /\ fake_report' =
           [fake_report EXCEPT
               !.tests = Append(@, check_capacity_consistency(
                                       fake_report.capacity))]
    /\ UNCHANGED << fake_pc, fake_call, probes >>
    /\ UNCHANGED << diagnostic_ui, disk_service, attrs, mounted, badblocks_exists, tests_to_run,
                    smart_parser, health_score, seen, threads, procs, session,
                    child, pc, idx, result, loc, callbacks, ui >>

\* A report holding any CapacityInfo, no sub-test run on it yet.
InitCapacity ==
    /\ attrs = TestRunnerAttrs
    /\ mounted = FALSE
    /\ badblocks_exists = FALSE
    /\ tests_to_run = << >>
    /\ NoParse
    /\ NoHealth
    /\ Fresh
    /\ NoDisk
    /\ Closed
    /\ fake_pc = "idle"
    /\ fake_call = [entry |-> None, allow_destructive |-> FALSE]
    /\ fake_report \in { [FakeDetectorReport EXCEPT !.capacity = c] :
                             c \in CapacityInfos }
    /\ probes = << >>

NextCapacity == check_hpa_call \/ check_capacity_consistency_call

\* The two capacity sub-tests applied to every CapacityInfo of
\* CapacityInfos.
SpecCapacity == InitCapacity /\ [][NextCapacity]_vars


(***************************************************************************)
(* core/disk_service.py: the SMART cache                                   *)
(***************************************************************************)

\* config.SMART_CACHE_TTL, and the default max_age of clear_old_cache.
SMART_CACHE_TTL == 30
MaxAge == 300

\* The probes of a run.
MaxProbes == 3

\* The instants at which time.time() is read, in seconds from the first:
\* both sides of the TTL and of max_age.
Instants == { 0, 29, 30, 300, 301 }

\* Everything outside DiskService.
elsewhere == << attrs, mounted, badblocks_exists, tests_to_run, smart_parser,
               health_score, fake_detector, seen, threads, procs, session,
               child, pc, idx, result, loc, callbacks, ui, diagnostic_ui >>

\* The calls of _get_smart_info that have still to probe or may have to.
Probing ==
    { t \in Threads : call[t].op = "get_smart_info"
                        /\ call[t].pc \in { "in", "age", "probe" } }

\* An entry that is served whatever its age.
Young_always(now, device) == device \in DOMAIN cache_timestamp

\* now - cls._cache_timestamp.get(device, 0) < SMART_CACHE_TTL, lines
\* 290-291.  Without a timestamp the difference is time.time() itself,
\* the seconds since 1970, which is not below the TTL.
Young(now, device) ==
    /\ device \in DOMAIN cache_timestamp
    /\ now - cache_timestamp[device] < SMART_CACHE_TTL

\* _get_smart_info(device, force_refresh), line 289: now = time.time();
\* with force_refresh the condition of line 290 is false at once.
get_smart_info_enter(t) ==
    /\ call[t].pc \in { "idle", "returned", "raised" }
    /\ Len(probed) + Cardinality(Probing) < MaxProbes
    /\ \E device \in Devices, force_refresh \in { t = "ui" } :
         call' = [call EXCEPT ![t] =
                     [NoCall EXCEPT
                         !.op = "get_smart_info",
                         !.pc = IF force_refresh THEN "probe" ELSE "in",
                         !.device = device,
                         !.force_refresh = force_refresh,
                         !.now = clock,
                         !.found = Found(device)]]
    /\ UNCHANGED << smart_cache, cache_timestamp, clock, probed, sizes,
                    disk_info, elsewhere >>

\* device in cls._smart_cache, line 290
get_smart_info_in(t) ==
    /\ call[t].op = "get_smart_info"
    /\ call[t].pc = "in"
    /\ call' = [call EXCEPT ![t].pc =
                   IF call[t].device \in DOMAIN smart_cache THEN "age"
                   ELSE "probe"]
    /\ UNCHANGED << smart_cache, cache_timestamp, clock, probed, sizes,
                    disk_info, elsewhere >>

\* now - cls._cache_timestamp.get(device, 0) < SMART_CACHE_TTL, lines 290-291
get_smart_info_age(t) ==
    /\ call[t].op = "get_smart_info"
    /\ call[t].pc = "age"
    /\ call' = [call EXCEPT ![t].pc =
                   IF Young(call[t].now, call[t].device)
                   THEN "hit" ELSE "probe"]
    /\ UNCHANGED << smart_cache, cache_timestamp, clock, probed, sizes,
                    disk_info, elsewhere >>

\* return cls._smart_cache[device], line 292: KeyError when the key is gone
get_smart_info_hit(t) ==
    /\ call[t].op = "get_smart_info"
    /\ call[t].pc = "hit"
    /\ call' = [call EXCEPT ![t] =
                   IF call[t].device \in DOMAIN smart_cache
                   THEN [@ EXCEPT !.pc = "returned",
                                  !.ret = smart_cache[call[t].device]]
                   ELSE [@ EXCEPT !.pc = "raised", !.raised = "KeyError"]]
    /\ UNCHANGED << smart_cache, cache_timestamp, clock, probed, sizes,
                    disk_info, elsewhere >>

\* SmartParser.parse(device) and the detections, lines 294-314
get_smart_info_probe(t) ==
    /\ call[t].op = "get_smart_info"
    /\ call[t].pc = "probe"
    /\ probed' = Append(probed, call[t].device)
    /\ call' = [call EXCEPT ![t].pc = "store",
                            ![t].info = Info(call[t].device, Len(probed) + 1)]
    /\ UNCHANGED << smart_cache, cache_timestamp, clock, sizes, disk_info,
                    elsewhere >>

\* cls._smart_cache[device] = info, line 316
get_smart_info_store(t) ==
    /\ call[t].op = "get_smart_info"
    /\ call[t].pc = "store"
    /\ smart_cache' = Put(smart_cache, call[t].device, call[t].info)
    /\ call' = [call EXCEPT ![t].pc = "stamp"]
    /\ UNCHANGED << cache_timestamp, clock, probed, sizes, disk_info,
                    elsewhere >>

\* cls._cache_timestamp[device] = now; return info, lines 317-318
get_smart_info_stamp(t) ==
    /\ call[t].op = "get_smart_info"
    /\ call[t].pc = "stamp"
    /\ cache_timestamp' = Put(cache_timestamp, call[t].device, call[t].now)
    /\ call' = [call EXCEPT ![t].pc = "returned", ![t].ret = call[t].info]
    /\ UNCHANGED << smart_cache, clock, probed, sizes, disk_info, elsewhere >>

\* clear_cache(), line 571: cls._smart_cache.clear()
clear_cache_smart(t) ==
    /\ t = "ui"
    /\ call[t].pc \in { "idle", "returned", "raised" }
    /\ smart_cache' = EmptyDict
    /\ call' = [call EXCEPT ![t] =
                   [NoCall EXCEPT !.op = "clear_cache", !.pc = "timestamp"]]
    /\ UNCHANGED << cache_timestamp, clock, probed, sizes, disk_info,
                    elsewhere >>

\* clear_cache(), line 572: cls._cache_timestamp.clear()
clear_cache_timestamp(t) ==
    /\ call[t].op = "clear_cache"
    /\ call[t].pc = "timestamp"
    /\ cache_timestamp' = EmptyDict
    /\ call' = [call EXCEPT ![t].pc = "returned"]
    /\ UNCHANGED << smart_cache, clock, probed, sizes, disk_info, elsewhere >>

\* The devices of a set in some order, as a list.
RECURSIVE Listed(_)
Listed(S) ==
    IF S = {} THEN << >>
    ELSE LET d == CHOOSE d \in S : TRUE IN << d >> \o Listed(S \ { d })

\* clear_old_cache(max_age = 300), lines 576-577: the devices whose
\* timestamp is more than max_age old
clear_old_cache_enter(t) ==
    /\ t = "worker"
    /\ call[t].pc \in { "idle", "returned", "raised" }
    /\ LET expired == { d \in DOMAIN cache_timestamp :
                            clock - cache_timestamp[d] > MaxAge }
       IN  call' = [call EXCEPT ![t] =
                       [NoCall EXCEPT
                           !.op = "clear_old_cache",
                           !.pc = IF expired = {} THEN "returned"
                                  ELSE "pop_smart",
                           !.now = clock,
                           !.expired = Listed(expired)]]
    /\ UNCHANGED << smart_cache, cache_timestamp, clock, probed, sizes,
                    disk_info, elsewhere >>

\* cls._smart_cache.pop(dev, None), line 579
clear_old_cache_pop_smart(t) ==
    /\ call[t].op = "clear_old_cache"
    /\ call[t].pc = "pop_smart"
    /\ smart_cache' = Pop(smart_cache, Head(call[t].expired))
    /\ call' = [call EXCEPT ![t].pc = "pop_timestamp"]
    /\ UNCHANGED << cache_timestamp, clock, probed, sizes, disk_info,
                    elsewhere >>

\* cls._cache_timestamp.pop(dev, None), line 580, and the next of the loop
clear_old_cache_pop_timestamp(t) ==
    /\ call[t].op = "clear_old_cache"
    /\ call[t].pc = "pop_timestamp"
    /\ cache_timestamp' = Pop(cache_timestamp, Head(call[t].expired))
    /\ call' = [call EXCEPT
                   ![t].expired = Tail(@),
                   ![t].pc = IF Tail(call[t].expired) = << >> THEN "returned"
                             ELSE "pop_smart"]
    /\ UNCHANGED << smart_cache, clock, probed, sizes, disk_info, elsewhere >>

\* Time passes.
tick ==
    /\ \E later \in Instants : later > clock /\ clock' = later
    /\ UNCHANGED << smart_cache, cache_timestamp, probed, call, sizes,
                    disk_info, elsewhere >>

\* The steps of thread t inside DiskService.
Cache(t) ==
    \/ get_smart_info_enter(t)
    \/ get_smart_info_in(t)
    \/ get_smart_info_age(t)
    \/ get_smart_info_hit(t)
    \/ get_smart_info_probe(t)
    \/ get_smart_info_store(t)
    \/ get_smart_info_stamp(t)
    \/ clear_cache_smart(t)
    \/ clear_cache_timestamp(t)
    \/ clear_old_cache_enter(t)
    \/ clear_old_cache_pop_smart(t)
    \/ clear_old_cache_pop_timestamp(t)

\* DiskService not called yet, no session, no parse, no report.
InitCache ==
    /\ attrs = TestRunnerAttrs
    /\ mounted = FALSE
    /\ badblocks_exists = FALSE
    /\ tests_to_run = << >>
    /\ NoParse
    /\ NoHealth
    /\ NoFake
    /\ Fresh
    /\ NoDisk
    /\ Closed

\* No thread but t is inside DiskService.
Alone(t) ==
    \A u \in Threads \ { t } : call[u].pc \in { "idle", "returned", "raised" }

NextCache == (\E t \in Threads : Alone(t) /\ Cache(t)) \/ tick

\* The calls of DiskService made one at a time.
SpecCache == InitCache /\ [][NextCache]_vars

NextRace == (\E t \in Threads : Cache(t)) \/ tick

\* The monitoring worker and the user interface calling DiskService with
\* nothing to order their steps: the class takes no lock.
SpecRace == InitCache /\ [][NextRace]_vars


(***************************************************************************)
(* core/disk_service.py: the size of a disk                                *)
(***************************************************************************)

\* size / (1024 ** 3), lines 209, 250, 261 and 273, kept in 1024ths of a
\* GiB (exact for the sizes below, which are whole MiB).
Gb(size_bytes) == size_bytes \div 1048576

\* _get_base_device, lines 279-285, on the names of the model: the
\* trailing digits of a partition are removed.
get_base_device(device) ==
    CASE device = "/dev/sda1" -> "/dev/sda"
      [] device = "/dev/sdb1" -> "/dev/sdb"
      [] OTHER -> device

\* What the sources can answer for a disk of 1 GiB.  partition: the first
\* mounted partition whose device holds the base name (lines 206-212) and
\* the total psutil.disk_usage gives for it, or a raise of psutil, or none;
\* blockdev --getsize64; /sys/block/<name>/size in sectors of 512 bytes;
\* lsblk -b.  The three raw sources are given different values so that
\* the one that was used shows.
SizeAnswers ==
    { [partition |-> p, blockdev |-> b, sys |-> y, lsblk |-> l] :
        p \in { [state |-> "unmounted", mountpoint |-> "", total |-> 0],
                [state |-> "raises", mountpoint |-> "", total |-> 0],
                [state |-> "mounted", mountpoint |-> "/proc", total |-> 0],
                [state |-> "mounted", mountpoint |-> "/mnt/data",
                 total |-> 805306368] },
        b \in { [ok |-> FALSE, bytes |-> 0],
                [ok |-> TRUE, bytes |-> 1073741824] },
        y \in { [ok |-> FALSE, sectors |-> 0],
                [ok |-> TRUE, sectors |-> 2095104] },
        l \in { [ok |-> FALSE, bytes |-> 0],
                [ok |-> TRUE, bytes |-> 1071644672] } }

\* _get_disk_size, lines 239-277: blockdev, then /sys/block, then lsblk,
\* then 0.
get_disk_size(answers) ==
    IF answers.blockdev.ok THEN Gb(answers.blockdev.bytes)
    ELSE IF answers.sys.ok THEN Gb(answers.sys.sectors * 512)
    ELSE IF answers.lsblk.ok THEN Gb(answers.lsblk.bytes)
    ELSE 0

\* get_disk_by_device(device), lines 195-237, called by the wizard when it
\* opens: the forced SMART lookup of line 198, the size of the mounted
\* partition if there is one (lines 205-214), and _get_disk_size only when
\* that left total_gb at 0 (lines 217-218).
get_disk_by_device ==
    /\ disk_info = NoDiskInfo
    /\ \E device \in { "/dev/sda", "/dev/sda1", "/dev/sdb" } :
         LET base == get_base_device(device)
             info == Info(base, Len(probed) + 1)
             mounted_gb == IF sizes.partition.state = "mounted"
                           THEN Gb(sizes.partition.total) ELSE 0
             mount_point == IF sizes.partition.state = "mounted"
                            THEN sizes.partition.mountpoint ELSE ""
             total_gb == IF mounted_gb = 0 THEN get_disk_size(sizes)
                         ELSE mounted_gb
         IN  /\ probed' = Append(probed, base)
             /\ smart_cache' = Put(smart_cache, base, info)
             /\ cache_timestamp' = Put(cache_timestamp, base, clock)
             /\ disk_info' = DiskInfo(device, base, mount_point, total_gb, info)
    /\ UNCHANGED << clock, call, sizes, elsewhere >>

\* DiskService not called yet, the sources of the size answering in any
\* of their ways.
InitSize ==
    /\ attrs = TestRunnerAttrs
    /\ mounted = FALSE
    /\ badblocks_exists = FALSE
    /\ tests_to_run = << >>
    /\ NoParse
    /\ NoHealth
    /\ NoFake
    /\ Fresh
    /\ smart_cache = EmptyDict
    /\ cache_timestamp = EmptyDict
    /\ clock = 0
    /\ probed = << >>
    /\ call = [t \in Threads |-> NoCall]
    /\ sizes \in SizeAnswers
    /\ disk_info = NoDiskInfo
    /\ Closed

\* One call of get_disk_by_device on every combination of SizeAnswers.
SpecSize == InitSize /\ [][get_disk_by_device]_vars


(***************************************************************************)
(* ui/diagnostic_controller.py and ui/diagnostic_wizard.py: the sessions   *)
(* of one device                                                           *)
(***************************************************************************)

\* The sessions one window is followed through.
MaxSessions == 3

FrontEnds == { "controller", "wizard" }

\* Everything outside the two front ends.
backstage == << attrs, mounted, badblocks_exists, tests_to_run, smart_parser,
               health_score, fake_detector, disk_service, seen, threads, procs,
               session, child, pc, idx, result, loc, callbacks, ui >>

\* A TestSession just created (lines 84-94) and the thread started on
\* TestRunner.run_tests(session): threading.Thread(...).start().
NewWorker == [ pc |-> "start", is_running |-> FALSE, is_cancelled |-> FALSE ]

\* self.session of the front end: the session created last.
HasSession == Len(workers) > 0

\* The threads that are inside run_tests or have still to enter it: their
\* on_session_complete is not delivered.
Executing == { i \in DOMAIN workers : workers[i].pc # "done" }

Handled(fields) == [ fields EXCEPT !.raised = None ]

\* DiagnosticController.start_tests, lines 23-38: returns at once when
\* _is_running is set (line 24), else creates the session, sets the flag
\* and starts the thread.
start_tests ==
    /\ front_end = "controller"
    /\ Len(workers) < MaxSessions
    /\ ~controls.is_running
    /\ workers' = Append(workers, NewWorker)
    /\ controls' = [ Handled(controls) EXCEPT !.is_running = TRUE ]
    /\ UNCHANGED << front_end, backstage >>

\* DiagnosticController.cancel_tests, lines 40-43: with a session,
\* TestRunner.cancel_session(self.session), whose lookup raises
\* AttributeError when the class does not bind it, line 43 being skipped;
\* then _is_running = False.
controller_cancel_tests ==
    /\ front_end = "controller"
    /\ IF HasSession /\ ~HasAttr("cancel_session")
       THEN /\ controls' = [ controls EXCEPT !.raised = "AttributeError" ]
            /\ UNCHANGED workers
       ELSE /\ workers' = [ i \in DOMAIN workers |->
                              IF i = Len(workers)
                              THEN [ workers[i] EXCEPT !.is_cancelled = TRUE ]
                              ELSE workers[i] ]
            /\ controls' = [ Handled(controls) EXCEPT !.is_running = FALSE ]
    /\ UNCHANGED << front_end, backstage >>

\* DiagnosticWizard._quick_action, diagnostic_wizard.py lines 372-389: one
\* of the three presets is selected and the start button is enabled,
\* whatever the session is doing.
quick_action ==
    /\ front_end = "wizard"
    /\ controls' = [ Handled(controls) EXCEPT !.selected_tests = TRUE,
                                              !.start_btn = "normal" ]
    /\ UNCHANGED << front_end, workers, backstage >>

\* DiagnosticWizard._start_tests, diagnostic_wizard.py lines 417-453, the
\* command of the start button: with tests selected (line 418) a session
\* is created, the buttons are switched and the thread is started.
wizard_start_tests ==
    /\ front_end = "wizard"
    /\ Len(workers) < MaxSessions
    /\ controls.start_btn = "normal"
    /\ controls.selected_tests
    /\ workers' = Append(workers, NewWorker)
    /\ controls' = [ Handled(controls) EXCEPT !.start_btn = "disabled",
                                              !.cancel_btn = "normal" ]
    /\ UNCHANGED << front_end, backstage >>

\* DiagnosticWizard._cancel_tests, diagnostic_wizard.py lines 455-474, the
\* command of the cancel button, the dialog confirmed: for a session whose
\* is_running is set, cancel_session (AttributeError when unbound, the
\* rest being skipped), then the start button is enabled again.
wizard_cancel_tests ==
    /\ front_end = "wizard"
    /\ controls.cancel_btn = "normal"
    /\ HasSession
    /\ workers[Len(workers)].is_running
    /\ IF ~HasAttr("cancel_session")
       THEN /\ controls' = [ controls EXCEPT !.raised = "AttributeError" ]
            /\ UNCHANGED workers
       ELSE /\ workers' = [ workers EXCEPT ![Len(workers)].is_cancelled = TRUE ]
            /\ controls' = [ Handled(controls) EXCEPT !.start_btn = "normal",
                                                      !.cancel_btn = "disabled" ]
    /\ UNCHANGED << front_end, backstage >>

\* run_tests, line 187: the thread enters run_tests.
worker_enter(i) ==
    /\ workers[i].pc = "start"
    /\ workers' = [ workers EXCEPT ![i].pc = "loop", ![i].is_running = TRUE ]
    /\ UNCHANGED << front_end, controls, backstage >>

\* run_tests, lines 188-204: the loop is left, by its end or by the break
\* of line 190, and is_running is cleared.
worker_leave(i) ==
    /\ workers[i].pc = "loop"
    /\ workers' = [ workers EXCEPT ![i].pc = "complete", ![i].is_running = FALSE ]
    /\ UNCHANGED << front_end, controls, backstage >>

\* run_tests, lines 205-206: on_session_complete is delivered.  The
\* controller clears _is_running (line 61); the wizard schedules the
\* update of its buttons (diagnostic_wizard.py line 601).
worker_session_complete(i) ==
    /\ workers[i].pc = "complete"
    /\ workers' = [ workers EXCEPT ![i].pc = "done" ]
    /\ controls' = IF front_end = "controller"
                   THEN [ controls EXCEPT !.is_running = FALSE ]
                   ELSE [ controls EXCEPT !.updates = @ + 1 ]
    /\ UNCHANGED << front_end, backstage >>

\* DiagnosticWizard._on_session_complete.update, diagnostic_wizard.py
\* lines 553-599, run by the event loop.
session_complete_update ==
    /\ front_end = "wizard"
    /\ controls.updates > 0
    /\ controls' = [ Handled(controls) EXCEPT !.updates = @ - 1,
                                              !.start_btn = "normal",
                                              !.cancel_btn = "disabled" ]
    /\ UNCHANGED << front_end, workers, backstage >>

\* A window on one device, no session yet; TestRunner as Python binds it
\* or with the routines of lines 662-881 as its members.
InitDiagnostic ==
    /\ attrs \in { TestRunnerAttrs, TestRunnerAttrs \cup NestedDefs }
    /\ mounted = FALSE
    /\ badblocks_exists = FALSE
    /\ tests_to_run = << >>
    /\ NoParse
    /\ NoHealth
    /\ NoFake
    /\ Fresh
    /\ NoDisk
    /\ front_end \in FrontEnds
    /\ controls = NoControls
    /\ workers = << >>

NextDiagnostic ==
    \/ start_tests
    \/ controller_cancel_tests
    \/ quick_action
    \/ wizard_start_tests
    \/ wizard_cancel_tests
    \/ session_complete_update
    \/ \E i \in DOMAIN workers : worker_enter(i)
    \/ \E i \in DOMAIN workers : worker_leave(i)
    \/ \E i \in DOMAIN workers : worker_session_complete(i)

\* The handlers of the front end and the threads they start.
SpecDiagnostic == InitDiagnostic /\ [][NextDiagnostic]_vars


(***************************************************************************)
(* core/smart_parser.py: the status of a parsed attribute                  *)
(***************************************************************************)

\* lines 52 and 55
CRITICAL_ATTRIBUTES == { 5, 10, 187, 196, 197, 198 }
WARNING_ATTRIBUTES == { 1, 7, 188, 199, 200 }

\* A line of the attribute table matched by the pattern of lines 275-289:
\* the groups _parse_attributes converts (lines 295-300), and the
\* SmartAttribute built from them once its status is derived.
TableRow(attr_id, value, threshold, raw_value, status) ==
    [ id |-> attr_id, value |-> value, threshold |-> threshold,
      raw_value |-> raw_value, status |-> status ]

\* The ids of the rows: a critical attribute, two attention attributes and
\* two that are in neither set.
RowIds == { 5, 9, 194, 199, 200 }

\* The raw values of the rows: on both sides of the tests of lines 307 and
\* 309.
RawValues == { 0, 1, 100, 101 }

\* lines 306-312
DerivedStatus(row) ==
    IF row.id \in CRITICAL_ATTRIBUTES /\ row.raw_value > 0 THEN "critical"
    ELSE IF row.id \in WARNING_ATTRIBUTES /\ row.raw_value > 100 THEN "warning"
    ELSE IF row.value <= row.threshold /\ row.threshold > 0 THEN "critical"
    ELSE "ok"

\* _parse_attributes on one matched line, lines 293-323: the attribute is
\* stored with its derived status.
parse_attributes ==
    /\ attribute.status = None
    /\ attribute' = [ attribute EXCEPT !.status = DerivedStatus(attribute) ]
    /\ UNCHANGED << analysis, attrs, mounted, badblocks_exists, tests_to_run, parse_pc,
                    tried, parse_loc, smart, verdicts, seen, threads, procs,
                    session, child, pc, idx, result, loc, callbacks, ui >>

\* The attribute stored by _parse_attributes is asked whether it is
\* failing.
parsed_is_failing ==
    /\ attribute.status # None
    /\ is_failing_call

\* Some line of the attribute table, not parsed yet.
InitTable ==
    /\ attrs = TestRunnerAttrs
    /\ mounted = FALSE
    /\ badblocks_exists = FALSE
    /\ tests_to_run = << >>
    /\ parse_pc = "idle"
    /\ tried = << >>
    /\ parse_loc = [output |-> NoOutput, used_driver |-> ""]
    /\ smart = SmartData
    /\ \E attr_id \in RowIds, value \in 0..MaxAttrValue,
          threshold \in 0..MaxAttrValue, raw_value \in RawValues :
         attribute = TableRow(attr_id, value, threshold, raw_value, None)
    /\ verdicts = << >>
    /\ NoHealth
    /\ NoFake
    /\ Fresh
    /\ NoDisk
    /\ Closed

NextTable == parse_attributes \/ parsed_is_failing

\* Every line of the bounded ranges parsed, and the attribute asked.
SpecTable == InitTable /\ [][NextTable]_vars


(***************************************************************************)
(* Claims about TestRunner.run_tests                                       *)
(***************************************************************************)

NotifiedIds == { notified[j].test_id : j \in 1..Len(notified) }
StartedIds == { started[j] : j \in 1..Len(started) }
ProgressIds == { progress[j].test_id : j \in 1..Len(progress) }

\* C1: the tests run one at a time, in list order: the tests started and
\* the tests reported are prefixes of tests_to_run; when test k is started
\* (its first on_progress delivered), the result of every earlier test is
\* stored and was delivered to on_test_complete; every progress value
\* delivered belongs to the one test in execution.
C1_OneAtATimeInOrder ==
    /\ Len(started) <= Len(tests_to_run)
    /\ \A k \in 1..Len(started) : started[k] = tests_to_run[k]
    /\ \A k \in 1..Len(notified) : notified[k].test_id = tests_to_run[k]
    /\ Len(started) - Len(notified) \in { 0, 1 }
    /\ \A k \in 2..Len(started) :
          /\ tests_to_run[k - 1] \in DOMAIN results
          /\ Len(notified) >= k - 1
    /\ \A j \in 1..Len(progress) :
          /\ started # << >>
          /\ progress[j].test_id = started[Len(started)]
          /\ Len(notified) = Len(started) - 1

C1_Witness ==
    /\ Len(started) = 3
    /\ Len(progress) >= 3
    /\ Len(notified) = 2

\* C2: every run of run_tests delivers on_session_complete; it is
\* delivered at most once, exactly once by the time run_tests has
\* returned, only when every started test has been reported, and no
\* callback follows it.
C2_SessionCompleteOnce ==
    /\ <>(session_completes = 1)
    /\ [](/\ session_completes <= 1
          /\ (pc = "done") <=> (session_completes = 1)
          /\ session_completes = 1 =>
                /\ Len(notified) = Len(started)
                /\ progress = << >>)
    /\ [][session_completes >= 1 => UNCHANGED callbacks]_vars

C2_Witness ==
    /\ pc = "done"
    /\ session_completes = 1
    /\ is_cancelled
    /\ Len(notified) = 1
    /\ Len(tests_to_run) = 3

\* The worker stands at the loop head, or past the loop, with the flag set.
Stopped ==
    /\ is_cancelled
    /\ pc \in { "loop", "exit", "session_complete", "done" }

\* C3: once the loop head is reached with the flag set, the test at the
\* head and every later one is never started, gets no callback and no
\* entry in results, and the worker never returns to the tests.
C3_CancelledTestsAbsent ==
    /\ [](Stopped =>
            \A k \in idx..Len(tests_to_run) :
                /\ tests_to_run[k] \notin DOMAIN results
                /\ tests_to_run[k] \notin StartedIds
                /\ tests_to_run[k] \notin NotifiedIds
                /\ tests_to_run[k] \notin ProgressIds)
    /\ [][Stopped => (Stopped' /\ idx' = idx /\ results' = results)]_vars

C3_Witness ==
    /\ pc = "done"
    /\ is_cancelled
    /\ Len(tests_to_run) = 3
    /\ idx = 2
    /\ DOMAIN results = { tests_to_run[1] }

WorkerPcs ==
    { "idle", "loop", "call", "except", "store", "notify", "exit",
      "session_complete", "done", "smart_short_drivers", "smart_short_poll",
      "read_sample_loop", "speed_dd", "f3probe_loop", "badblocks_loop",
      "badblocks_wait" }

Position(id) == CHOOSE k \in 1..Len(tests_to_run) : tests_to_run[k] = id

\* C7: an exception that ends a test body becomes that test's result,
\* FAILED with the exception text; the result is stored and delivered to
\* on_test_complete; the worker stays inside run_tests, and a run whose
\* flag was never set ends with every test of the list reported.
C7_ExceptionBecomesFailed ==
    /\ pc \in WorkerPcs
    /\ \A id \in DOMAIN raised :
          LET r == TestResult(id, FAILED, raised[id])
          IN  /\ id \in DOMAIN results => results[id] = r
              /\ result.test_id = id => result = r
              /\ idx > Position(id) =>
                    /\ id \in DOMAIN results
                    /\ notified[Position(id)] = r
    /\ (pc = "done" /\ ~is_cancelled) => Len(notified) = Len(tests_to_run)

C7_Witness ==
    /\ pc = "done"
    /\ ~is_cancelled
    /\ "smart_short" \in DOMAIN raised
    /\ "badblocks_wipe" \in DOMAIN raised
    /\ Len(notified) = 3
    /\ notified[1] = TestResult("smart_short", FAILED, NameErrorParsed)
    /\ notified[2].status = COMPLETED
    /\ notified[3] =
          TestResult("badblocks_wipe", FAILED, AttrError("_run_badblocks"))


(***************************************************************************)
(* Claims about cancellation                                               *)
(***************************************************************************)

\* C4: in a session [A, B, C] whose cancellation is requested while B is
\* executing, the finished run has A with a terminal status, B with
\* CANCELLED, no entry for C, and one on_session_complete, after B's
\* on_test_complete.
C4_CancelledMidSecondTest ==
    (/\ pc = "done"
     /\ Len(tests_to_run) = 3
     /\ cancel_log # << >>
     /\ cancel_log[1].test = tests_to_run[2]
     /\ cancel_log[1].executing)
    => /\ DOMAIN results = { tests_to_run[1], tests_to_run[2] }
       /\ results[tests_to_run[1]].status \in TerminalStatus
       /\ results[tests_to_run[2]].status = CANCELLED
       /\ session_completes = 1
       /\ Len(notified) = 2
       /\ notified[2].test_id = tests_to_run[2]

ProcessBacked == { "f3probe" } \cup SurfaceScans

\* C5: a test whose child process was alive when a cancel request arrived
\* is recorded as CANCELLED, and its child is dead by the time its result
\* is returned.
C5_CancelledWhileChildAlive ==
    \A j \in 1..Len(cancel_log) :
        LET c == cancel_log[j]
        IN  (/\ c.test \in ProcessBacked
             /\ c.executing
             /\ c.child = "running")
            => /\ c.test \in DOMAIN results
                    => results[c.test].status = CANCELLED
               /\ (current_test = c.test /\ pc \in { "store", "notify" })
                    => /\ result.test_id = c.test
                            => result.status = CANCELLED
                       /\ child = "exited"

\* C6: a cancel request sets the flag; it terminates the child behind a
\* stored handle and clears the handle; a child is signalled by one
\* cancel step only.
C6_CancelRequest ==
    /\ [][Len(cancel_log') > Len(cancel_log) => is_cancelled']_vars
    /\ [][(canceller # "done" /\ canceller' = "done")
             => current_process' = None]_vars
    /\ [](\A i, j \in 1..Len(signals) : signals[i].by = signals[j].by)

(***************************************************************************)
(* Claims about the surface scan                                           *)
(***************************************************************************)

Unmount == "Disco montado! Desmonte antes de testar."

SpawnedFor(id) == { spawned[j].flag : j \in { k \in 1..Len(spawned) : spawned[k].test = id } }

\* C8: a surface scan of a mounted device ends FAILED with the unmount
\* instruction, and no scan process is spawned for it.
C8_MountGuard ==
    \A id \in SurfaceScans :
        mounted =>
            /\ SpawnedFor(id) = {}
            /\ id \in DOMAIN results
                 => results[id] = TestResult(id, FAILED, Unmount)

\* The scan of test id could start: the tool is there, the device is not
\* mounted, and the spawn did not fail.
ScanDue(id) ==
    /\ id \in DOMAIN results
    /\ badblocks_exists
    /\ ~mounted
    /\ ~(id \in DOMAIN raised /\ raised[id] = ErroE)

Returned(id, tag) ==
    /\ pc = "store"
    /\ current_test = id
    /\ Fact(tag) \in seen

\* C11: a test whose external tool is not installed (smartctl for the short
\* self-test, blockdev for the sampled read, f3probe for the capacity
\* probe, badblocks for a surface scan) returns SKIPPED, never FAILED.
C11_MissingToolSkipped ==
    /\ \A id \in { "smart_short", "read_sample", "f3probe" } :
         Returned(id, "tool_missing") => result.status = SKIPPED
    /\ \A id \in SurfaceScans :
         (pc = "store" /\ current_test = id /\ ~badblocks_exists)
             => result.status = SKIPPED

Unconfirmed ==
    TestResult("smart_short", COMPLETED,
               "Teste iniciado (verifique resultados depois)")

\* C12: once the short self-test has started, its polling loop ends; when
\* no poll of the log showed a terminal phrase and no cancel was requested
\* it ends after 18 polls of 10 s (180 s; two progress values precede
\* the polls', the 0 of run_tests and the 5 of the test) with COMPLETED and the
\* "unconfirmed" message; no progress value of the test exceeds 95.
C12_PollBudget ==
    /\ [](\A j \in 1..Len(progress) :
            progress[j].test_id = "smart_short" => progress[j].pct <= 95)
    /\ [](pc = "smart_short_poll"
            => /\ loc.elapsed <= 180
               /\ Len(progress) = 2 + loc.elapsed \div 10)
    /\ []((/\ Returned("smart_short", "started")
           /\ Fact("terminal_phrase") \notin seen
           /\ ~is_cancelled)
            => /\ result = Unconfirmed
               /\ Len(progress) = 2 + 18)
    /\ (pc = "smart_short_poll") ~> (pc = "store")

\* The self-test started, eighteen polls found no terminal phrase, nobody
\* cancelled: the last progress value is the cap and the result is the
\* unconfirmed COMPLETED.
C12_Witness ==
    /\ Returned("smart_short", "started")
    /\ Fact("terminal_phrase") \notin seen
    /\ ~is_cancelled
    /\ result = Unconfirmed
    /\ Len(progress) = 20
    /\ progress[20].pct = 95
    /\ progress[13].pct = 87

\* C13: when the tool's answer to the self-test request says a test is
\* already in progress, the short self-test returns SKIPPED, never FAILED,
\* and the polling phase is not entered.
C13_InProgressSkipped ==
    Returned("smart_short", "in_progress")
        => /\ result.status = SKIPPED
           /\ Fact("started") \notin seen

\* lines 517-521: the figure in MB/s.
SpeedMBps(figure) == IF figure.tag = "GB" THEN figure.n * 1024 ELSE figure.n

\* lines 524-531: status_msg.
SpeedLabel(speed) ==
    IF speed > 100 THEN "Excelente"
    ELSE IF speed > 50 THEN "Bom"
    ELSE IF speed > 20 THEN "Aceitavel"
    ELSE "Lento"

\* C14: a speed test whose transfer printed a throughput figure returns
\* COMPLETED with the label of the figure in MB/s (> 100 excellent, > 50
\* good, > 20 acceptable, else slow; GB/s times 1024 first); a transfer
\* that exceeds the timeout returns FAILED with the "disk too slow"
\* message.
C14_SpeedLabel ==
    /\ \A figure \in SpeedFigures :
         (pc = "store" /\ current_test = "speed_test" /\ figure \in seen)
             => result = TestResult("speed_test", COMPLETED,
                                    SpeedLabel(SpeedMBps(figure)))
    /\ Returned("speed_test", "timeout") => result = SpeedTimeout

\* C15: the capacity probe, when its child process has exited by itself,
\* returns COMPLETED (authentic) for an output with the genuine marker,
\* FAILED with the fake-disk message for an output with a fake marker, and
\* FAILED with the insufficient-privilege message, a different one, for an
\* output with the permission-denied marker only.
C15_ProbeVerdict ==
    Returned("f3probe", "exited") =>
        LET met(m) == Fact(m) \in seen
        IN  /\ met("good news")
                 => result = TestResult("f3probe", COMPLETED,
                                        "Disco AUTENTICO confirmado")
            /\ (~met("good news") /\ (met("bad news") \/ met("fake")))
                 => result = TestResult("f3probe", FAILED,
                                        "DISCO FALSO DETECTADO!")
            /\ (met("permission denied") /\ ~met("good news")
                  /\ ~met("bad news") /\ ~met("fake"))
                 => result = TestResult("f3probe", FAILED,
                                        "Sem permissao (execute como root)")

C17_ReadFailureCounts ==
    Returned("read_sample", "ten_reads")
        => /\ result.status \in { FAILED, COMPLETED }
           /\ result.status = FAILED <=> Fact("read_failed") \in seen

(***************************************************************************)
(* Claims about core/smart_parser.py                                       *)
(***************************************************************************)

\* The answer to the i-th hint is a response with a SMART or Model marker
\* and without the bridge marker.
Valid(i) ==
    /\ tried[i].answer.kind = "returns"
    /\ tried[i].answer.stdout \cap { "SMART", "Model" } # {}
    /\ "Unknown USB bridge" \notin tried[i].answer.stdout

\* C18: parse gives the hints in the order none, sat, scsi, ata,
\* usbjmicron, nvme and stops at the first valid response: no hint is
\* given after it, the snapshot's driver is that hint, its fields are read
\* from that response alone, and a snapshot that holds anything was
\* filled from a valid response.
C18_FirstValidResponse ==
    /\ \A i \in 1..Len(tried) :
         tried[i].driver = << "", "sat", "scsi", "ata", "usbjmicron", "nvme" >>[i]
    /\ \A i \in 1..(Len(tried) - 1) : ~Valid(i)
    /\ parse_pc = "returned" =>
         LET k == Len(tried)
             text == tried[k].answer.stdout
         IN  /\ k >= 1
             /\ ~Valid(k) => k = 6
             /\ smart # SmartData => Valid(k)
             /\ Valid(k) =>
                  /\ smart.driver = tried[k].driver
                  /\ smart.raw_output = [attempt |-> k, stdout |-> text]
                  /\ smart.model = IF "Model" \in text THEN ModelNames[k] ELSE ""
                  /\ smart.smart_supported
                       = (\/ "SMART support is: Available" \in text
                          \/ "SMART/Health" \in text)

\* The first two hints get transport errors (the bridge error, a
\* timeout), the third a text with a Model line: the snapshot is the
\* third's.
C18_Witness ==
    /\ parse_pc = "returned"
    /\ Len(tried) = 3
    /\ tried[1].answer = [kind |-> "returns",
                          stdout |-> { "SMART", "Unknown USB bridge" }]
    /\ tried[2].answer.kind = "timeout"
    /\ tried[3].answer = [kind |-> "returns", stdout |-> { "Model" }]
    /\ smart.driver = "scsi"
    /\ smart.model = "model#3"
    /\ smart.raw_output.attempt = 3

\* C19: parse never raises; when every hint fails (a timeout, an error of
\* the tool's start, no valid response) it returns the snapshot of
\* defaults, with smart_supported false.
C19_NeverRaises ==
    /\ parse_pc # "raised"
    /\ (parse_pc = "returned" /\ \A i \in 1..Len(tried) : ~Valid(i))
         => /\ Len(tried) = 6
            /\ smart = SmartData
            /\ smart.smart_supported = FALSE
            /\ smart.driver = ""
            /\ smart.raw_output = NoOutput

\* All six hints fail, in every way they can: the default snapshot.
C19_Witness ==
    /\ parse_pc = "returned"
    /\ Len(tried) = 6
    /\ tried[1].answer.kind = "timeout"
    /\ tried[2].answer.kind = "raises"
    /\ tried[3].answer = [kind |-> "returns", stdout |-> {}]
    /\ tried[4].answer = [kind |-> "returns", stdout |-> { "other" }]
    /\ tried[5].answer = [kind |-> "returns",
                          stdout |-> { "SMART", "Unknown USB bridge" }]
    /\ tried[6].answer.kind = "raises"
    /\ smart = SmartData
    /\ ~smart.smart_supported

\* C20: is_failing() is true exactly when threshold > 0 and value <=
\* threshold; with threshold 0 it is false whatever the value.
C20_IsFailing ==
    verdicts # << >> =>
        /\ verdicts[1] <=> (attribute.threshold > 0
                              /\ attribute.value <= attribute.threshold)
        /\ attribute.threshold = 0 => ~verdicts[1]

\* An attribute with threshold 0 and value 0 was asked and is not failing.
C20_Witness ==
    /\ verdicts = << FALSE >>
    /\ attribute = SmartAttribute(0, 0)

(***************************************************************************)
(* Claims about core/health_score.py                                       *)
(***************************************************************************)

\* The sum of the deltas of a list of factors.
RECURSIVE SumDeltas(_)
SumDeltas(factors) ==
    IF factors = << >> THEN 0
    ELSE Head(factors).delta + SumDeltas(Tail(factors))

\* The factors of the report with this label, and the delta of the one
\* there is (0 when there is none).
FactorsOf(label) ==
    { j \in 1..Len(health_report.factors) : health_report.factors[j].label = label }

DeltaOf(label) ==
    IF FactorsOf(label) = {} THEN 0
    ELSE health_report.factors[CHOOSE j \in FactorsOf(label) : TRUE].delta

\* C21: the score that calculate_health returns is within 0..100.
C21_ScoreBounded ==
    health_pc = "returned" => health_report.score \in 0..100

\* A failed health status, many reallocated, pending and uncorrectable
\* sectors: the penalties exceed 100 and the score is 0.
C21_Witness ==
    /\ health_pc = "returned"
    /\ health_report.score = 0
    /\ SumDeltas(health_report.factors) < -100

\* C22: the score is 100 plus the sum of the deltas of the recorded
\* factors, clamped to 0..100; every factor's delta is a penalty (negative)
\* and each check records at most one factor.
C22_FactorsReconstructScore ==
    health_pc = "returned" =>
        LET raw == 100 + SumDeltas(health_report.factors)
        IN  /\ health_report.score
                 = (IF raw < 0 THEN 0 ELSE IF raw > 100 THEN 100 ELSE raw)
            /\ \A j \in 1..Len(health_report.factors) :
                 /\ health_report.factors[j].delta < 0
                 /\ Cardinality(FactorsOf(health_report.factors[j].label)) = 1

\* Three penalties, none of them clamped away: a warm disk with a few
\* reallocated sectors and some CRC errors.
C22_Witness ==
    /\ health_pc = "returned"
    /\ Len(health_report.factors) = 3
    /\ DeltaOf("Temperatura") = -10
    /\ DeltaOf("Setores realocados") = -10
    /\ DeltaOf("Erros CRC") = -7
    /\ health_report.score = 73

\* C23: with the weight table of the snapshot's vendor (the default table
\* for an unrecognized vendor): a failed health status costs a flat 50 and
\* brings the backup recommendation (so, all other metrics nominal, the
\* score is exactly 50); reallocated sectors cost the full weight when
\* > 100, 70% of it when > 10, 30% when > 0; pending sectors the full weight
\* when > 10, 50% when > 0; uncorrectable sectors weight x min(1, count/5)
\* (the score being an integer, the integer part of each amount).
C23_Penalties ==
    health_pc = "returned" =>
        LET s == snapshot
            w == IF s.vendor \in { "Western Digital", "Seagate", "Toshiba",
                                   "Samsung", "HGST" }
                 THEN VENDOR_WEIGHTS[s.vendor]
                 ELSE VENDOR_WEIGHTS["default"]
            nominal == /\ s.reallocated_sectors = 0
                       /\ s.pending_sectors = 0
                       /\ s.uncorrectable_sectors = 0
                       /\ s.power_on_hours <= 25000
                       /\ s.temperature <= 45
                       /\ s.crc = 0
            backup == "BACKUP IMEDIATO! Disco pode falhar a qualquer momento."
        IN  /\ DeltaOf("SMART Health FALHOU")
                 = (IF s.health_passed THEN 0 ELSE -50)
            /\ ~s.health_passed =>
                 \E j \in 1..Len(health_report.recommendations) :
                     health_report.recommendations[j] = backup
            /\ (~s.health_passed /\ nominal) =>
                 /\ health_report.score = 50
                 /\ health_report.recommendations = << backup >>
            /\ DeltaOf("Setores realocados")
                 = (IF s.reallocated_sectors > 100
                    THEN -w.Reallocated_Sector_Ct
                    ELSE IF s.reallocated_sectors > 10
                    THEN -((w.Reallocated_Sector_Ct * 70) \div 100)
                    ELSE IF s.reallocated_sectors > 0
                    THEN -((w.Reallocated_Sector_Ct * 30) \div 100)
                    ELSE 0)
            /\ DeltaOf("Setores pendentes")
                 = (IF s.pending_sectors > 10
                    THEN -w.Current_Pending_Sector
                    ELSE IF s.pending_sectors > 0
                    THEN -((w.Current_Pending_Sector * 50) \div 100)
                    ELSE 0)
            /\ DeltaOf("Setores incorrigiveis")
                 = (IF s.uncorrectable_sectors >= 5
                    THEN -w.Offline_Uncorrectable
                    ELSE -((w.Offline_Uncorrectable * s.uncorrectable_sectors)
                             \div 5))

\* The health status failed and nothing else is wrong: 50, and the backup
\* recommendation alone.
C23_Witness ==
    /\ health_pc = "returned"
    /\ ~snapshot.health_passed
    /\ snapshot.vendor = "Seagate"
    /\ snapshot.power_on_hours = 25000
    /\ snapshot.temperature = 45
    /\ health_report.score = 50
    /\ health_report.factors = << Factor("SMART Health FALHOU", -50, "critical") >>
    /\ Len(health_report.recommendations) = 1

\* C24: the level of a report follows from its score alone: excellent from
\* 90, good from 75, fair from 50, poor from 25, critical below.
C24_LevelFromScore ==
    health_pc = "returned" =>
        health_report.level
            = (IF health_report.score >= 90 THEN "excellent"
               ELSE IF health_report.score >= 75 THEN "good"
               ELSE IF health_report.score >= 50 THEN "fair"
               ELSE IF health_report.score >= 25 THEN "poor"
               ELSE "critical")

\* A score on a breakpoint: 75 is good.
C24_Witness ==
    /\ health_pc = "returned"
    /\ health_report.score = 75
    /\ health_report.level = "good"

\* C25: the recommendation list is never empty, and with no penalty
\* applied it is the keep-monitoring recommendation alone.
C25_RecommendationsNeverEmpty ==
    health_pc = "returned" =>
        /\ health_report.recommendations # << >>
        /\ health_report.factors = << >>
             => health_report.recommendations = << KeepMonitoring >>

\* A snapshot with nothing wrong: score 100, one recommendation.
C25_Witness ==
    /\ health_pc = "returned"
    /\ health_report.factors = << >>
    /\ health_report.score = 100
    /\ health_report.recommendations = << KeepMonitoring >>


(***************************************************************************)
(* Claims about core/fake_detector.py                                      *)
(***************************************************************************)

CountOf(r) ==
    Cardinality({ i \in 1..Len(fake_report.tests) :
                      fake_report.tests[i].result = r })

ProbeReportsFake ==
    \E i \in 1..Len(fake_report.tests) :
        /\ fake_report.tests[i].name = "f3probe"
        /\ fake_report.tests[i].result = FAILED

\* C26: the verdict computed from a list of sub-test results is given by
\* the first rule that applies: the destructive probe failed -> fake, 100;
\* two or more failed -> fake, min(90, 50 + 30 x failed); one failed ->
\* suspicious, min(70, 30 + 30 x failed + 10 x warned); some warned ->
\* suspicious, min(50, 20 + 10 x warned); some passed -> genuine,
\* min(80, 20 x passed); otherwise unknown, 0.  The confidence is within
\* 0..100.
C26_VerdictRules ==
    fake_pc = "returned" =>
        LET failed == CountOf(FAILED)
            warned == CountOf(WARNING)
            passed == CountOf(PASSED)
        IN  /\ fake_report.confidence \in 0..100
            /\ << fake_report.status, fake_report.confidence >> =
                   IF ProbeReportsFake THEN << "fake", 100 >>
                   ELSE IF failed >= 2
                   THEN << "fake", Min(90, 50 + 30 * failed) >>
                   ELSE IF failed = 1
                   THEN << "suspicious",
                           Min(70, 30 + 30 * failed + 10 * warned) >>
                   ELSE IF warned > 0
                   THEN << "suspicious", Min(50, 20 + 10 * warned) >>
                   ELSE IF passed > 0
                   THEN << "genuine", Min(80, 20 * passed) >>
                   ELSE << "unknown", 0 >>

\* Two sub-tests failed, the probe not among them, a warning and a pass
\* beside them: fake with confidence 90.
C26_Witness ==
    /\ fake_pc = "returned"
    /\ ~ProbeReportsFake
    /\ CountOf(FAILED) = 2
    /\ CountOf(WARNING) = 1
    /\ CountOf(PASSED) = 1
    /\ fake_report.status = "fake"
    /\ fake_report.confidence = 90


\* C27: when the output of the destructive probe contains 'fake', an
\* authorized full_check returns the verdict fake with confidence 100,
\* whatever the other sub-tests gave and whatever else the output holds.
C27_ProbeFakePriority ==
    ( /\ fake_pc = "returned"
      /\ fake_call.allow_destructive
      /\ Len(probes) > 0
      /\ probes[1].kind = "output"
      /\ "fake" \in probes[1].text )
        => /\ fake_report.status = "fake"
           /\ fake_report.confidence = 100


\* C28: f3probe is run only by a full_check that was given
\* allow_destructive = true; quick_check never runs it, and a full_check
\* that was not allowed does not run it and returns the report quick_check
\* builds from the same capacities, with no f3probe sub-test in it.
C28_ProbeOnlyWhenAllowed ==
    fake_pc = "returned" =>
        /\ probes # << >> =>
               /\ fake_call.allow_destructive
               /\ fake_call.entry \in { "full_check", "check_fake" }
        /\ fake_call.entry = "quick_check" => probes = << >>
        /\ ~fake_call.allow_destructive =>
               /\ probes = << >>
               /\ ~HasTest("f3probe")
               /\ fake_report = QuickReport(fake_report.capacity)

\* full_check returned without having been allowed the probe, on a disk
\* whose capacities disagree.
C28_Witness ==
    /\ fake_pc = "returned"
    /\ fake_call.entry = "full_check"
    /\ ~fake_call.allow_destructive
    /\ probes = << >>
    /\ Len(fake_report.tests) = 3
    /\ fake_report.status = "suspicious"


\* C29: the HPA sub-test reports a hidden area exactly when the native and
\* the current sector counts are both known (> 0) and differ, and the size
\* it reports is then the non-negative difference of the two counts times
\* 512 bytes (native 1000, current 900: 51200 bytes, printed 50.00 KB).
C29_HiddenArea ==
    HasTest("HPA") =>
        LET cap == fake_report.capacity
            t == TestNamed("HPA")
            hidden == ( /\ cap.hdparm_native_sectors > 0
                        /\ cap.hdparm_max_sectors > 0
                        /\ cap.hdparm_native_sectors # cap.hdparm_max_sectors )
        IN  /\ (t.result = WARNING) <=> hidden
            /\ hidden =>
                   t.message[2] =
                       bytes_to_human(Abs(cap.hdparm_native_sectors
                                            - cap.hdparm_max_sectors) * 512)


NonZeroSources ==
    { v \in { fake_report.capacity.lsblk_bytes, fake_report.capacity.fdisk_bytes,
              fake_report.capacity.smart_bytes } : v > 0 }

SourceCount ==
    Cardinality({ k \in { "lsblk_bytes", "fdisk_bytes", "smart_bytes" } :
                      fake_report.capacity[k] > 0 })

\* C30: the capacity-consistency sub-test fails exactly when at least two
\* of the three capacity sources are non-zero and the spread between the
\* largest and the smallest of them is strictly more than 5% of the
\* largest; otherwise it passes.
C30_CapacityTolerance ==
    HasTest("Capacidade") =>
        ( TestNamed("Capacidade").result = FAILED
            <=> /\ SourceCount >= 2
                /\ \E hi \in NonZeroSources, lo \in NonZeroSources :
                       /\ \A v \in NonZeroSources : lo <= v /\ v <= hi
                       /\ 100 * (hi - lo) > 5 * hi )
        /\ TestNamed("Capacidade").result \in { FAILED, PASSED }

\* Two sources exactly 5% apart (10000 and 9500), the third silent: the
\* sub-test passed.
C30_Witness ==
    /\ HasTest("Capacidade")
    /\ fake_report.capacity.lsblk_bytes = 10000
    /\ fake_report.capacity.fdisk_bytes = 0
    /\ fake_report.capacity.smart_bytes = 9500
    /\ TestNamed("Capacidade").result = PASSED

\* Two sources 5.01% apart (10000 and 9499): the sub-test failed.
C30_JustAbove ==
    /\ HasTest("Capacidade")
    /\ fake_report.capacity.lsblk_bytes = 10000
    /\ fake_report.capacity.fdisk_bytes = 9499
    /\ fake_report.capacity.smart_bytes = 0
    /\ TestNamed("Capacidade").result = FAILED


(***************************************************************************)
(* Claims about core/disk_service.py                                       *)
(***************************************************************************)

\* C31: with the calls of DiskService made one at a time, a lookup without
\* force_refresh that finds an entry for its device whose timestamp (the
\* time.time() read by the lookup that probed the device last) is less
\* than the TTL of 30 s old returns that entry and runs no probe; any other
\* lookup (force_refresh, an entry of 30 s or more, no entry since it was
\* cleared or never made) probes the device, returns the new entry and
\* leaves it in the cache with the time the lookup read as its timestamp.
\* No lookup raises.
C31_CacheLookup ==
    [][ \A t \in Threads :
          /\ call'[t].op = "get_smart_info" => call'[t].pc # "raised"
          /\ ( /\ call'[t].op = "get_smart_info"
               /\ call[t].pc # "returned"
               /\ call'[t].pc = "returned" )
             => LET c == call'[t]
                    served == /\ ~c.force_refresh
                              /\ c.found.cached
                              /\ c.found.stamped
                              /\ c.now - c.found.timestamp < SMART_CACHE_TTL
                IN  IF served
                    THEN /\ c.ret = c.found.entry
                         /\ c.info = NoInfo
                         /\ probed' = probed
                    ELSE /\ c.info # NoInfo
                         /\ c.info # c.found.entry
                         /\ probed'[c.info.probe] = c.device
                         /\ c.ret = c.info
                         /\ c.device \in DOMAIN smart_cache'
                         /\ smart_cache'[c.device] = c.ret
                         /\ c.device \in DOMAIN cache_timestamp'
                         /\ cache_timestamp'[c.device] = c.now ]_vars

\* A lookup 29 s after the one that probed the device returned the cached
\* entry without a probe of its own.
C31_Witness ==
    /\ call["worker"].op = "get_smart_info"
    /\ call["worker"].pc = "returned"
    /\ ~call["worker"].force_refresh
    /\ call["worker"].found.cached
    /\ call["worker"].now - call["worker"].found.timestamp = 29
    /\ call["worker"].ret = call["worker"].found.entry
    /\ call["worker"].info = NoInfo


\* C32: a lookup of the monitoring worker without force_refresh, whatever
\* steps of a forced refresh or of clear_cache by the user interface come
\* between its own, does not raise, and returns the entry it found cached
\* or one probed for its device since.
C32_ConcurrentRead ==
    call["worker"].op = "get_smart_info" =>
        /\ call["worker"].pc # "raised"
        /\ call["worker"].pc = "returned" =>
               /\ call["worker"].ret # NoInfo
               /\ call["worker"].ret.device = call["worker"].device
               /\ \/ call["worker"].ret = call["worker"].found.entry
                  \/ probed[call["worker"].ret.probe] = call["worker"].device


\* C33: the capacity get_disk_by_device reports is that of the raw
\* block-size query whenever the query succeeds, whether or not a
\* partition of the device is mounted.
C33_RawSizeFirst ==
    ( disk_info # NoDiskInfo /\ sizes.blockdev.ok )
        => disk_info.total_gb = Gb(sizes.blockdev.bytes)


(***************************************************************************)
(* Further claims about core/test_runner.py                                *)
(***************************************************************************)

C35_OneWorker == Cardinality(Executing) <= 1


(***************************************************************************)
(* Further claims about TestRunner.run_tests                               *)
(***************************************************************************)

\* The ids of the first k tests of the session's list.
FirstIds(k) == { tests_to_run[i] : i \in 1..k }

\* C36: at every point of a run the keys of session.results are exactly
\* the ids of a prefix of tests_to_run, every stored result has a terminal
\* status and carries the id it is stored under; and no step removes a key.
C36_ResultsPrefix ==
    /\ [](/\ \E k \in 0..Len(tests_to_run) : DOMAIN results = FirstIds(k)
          /\ \A id \in DOMAIN results :
                /\ results[id].status \in TerminalStatus
                /\ results[id].test_id = id)
    /\ [][DOMAIN results \subseteq DOMAIN results']_vars

\* A run that stored the result of a first test and then that of a
\* cancelled second one.
C36_Witness ==
    /\ Cardinality(DOMAIN results) = 2
    /\ \E id \in DOMAIN results : results[id].status = CANCELLED
    /\ \E id \in DOMAIN results : results[id].status = COMPLETED


(***************************************************************************)
(* Further claims about core/health_score.py                               *)
(***************************************************************************)

\* C37: the keep-monitoring recommendation appears in a report only when
\* no penalty factor was recorded.
C37_GenericOnlyWhenClean ==
    (health_pc = "returned" /\ health_report.factors # << >>)
        => \A j \in 1..Len(health_report.recommendations) :
              health_report.recommendations[j] # KeepMonitoring

\* The score calculate_health gives to a snapshot (lines 106-263).
ScoreOf(s) ==
    LET c == Checks(s)
    IN  Clamp(100 - c[1].sub - c[2].sub - c[3].sub - c[4].sub
                  - c[5].sub - c[6].sub - c[7].sub)

\* The snapshots of Snapshots that differ from s in one metric, which is
\* larger.
Worsened(s) ==
    { [s EXCEPT !.reallocated_sectors = v] :
        v \in { w \in { 1, 10, 11, 100, 101 } : w > s.reallocated_sectors } }
    \cup { [s EXCEPT !.pending_sectors = v] :
        v \in { w \in { 1, 10, 11 } : w > s.pending_sectors } }
    \cup { [s EXCEPT !.uncorrectable_sectors = v] :
        v \in { w \in { 1, 3, 5, 6 } : w > s.uncorrectable_sectors } }
    \cup { [s EXCEPT !.power_on_hours = v] :
        v \in { w \in { 25000, 25001, 40001, 60001 } : w > s.power_on_hours } }
    \cup { [s EXCEPT !.temperature = v] :
        v \in { w \in { 45, 46, 56, 66 } : w > s.temperature } }
    \cup { [s EXCEPT !.crc = v] :
        v \in { w \in { 1, 101 } : w > s.crc } }

\* C38: the score is monotone: a snapshot of the same vendor and health
\* status with a larger sector count, more power-on hours, a higher
\* temperature or more CRC errors never scores higher.
C38_ScoreMonotone ==
    health_pc = "returned" =>
        \A worse \in Worsened(snapshot) :
            /\ worse \in Snapshots
            /\ ScoreOf(worse) <= health_report.score

\* A warm disk (56 degrees, 10 points) scored, with a hot one (66 degrees,
\* 15 points) to compare: 90 against 85.
C38_Witness ==
    /\ health_pc = "returned"
    /\ snapshot = SmartMetrics("Seagate", TRUE, 0, 0, 0, 0, 56, 0)
    /\ health_report.score = 90
    /\ ScoreOf([snapshot EXCEPT !.temperature = 66]) = 85
    /\ [snapshot EXCEPT !.temperature = 66] \in Worsened(snapshot)


(***************************************************************************)
(* Further claims about core/smart_parser.py                               *)
(***************************************************************************)

\* C39: every parsed attribute for which is_failing() is true has the
\* derived status CRITICAL, whichever its id and its raw value.
C39_FailingIsCritical ==
    (attribute.status # None /\ verdicts = << TRUE >>)
        => attribute.status = "critical"

=============================================================================
